---- MODULE Spec2Model ----
(***************************************************************************)
(* Model of the IMAP ingestion control plane of Outspark-main-ingest:      *)
(*   - IMAPService (connection cache used by the workers)                  *)
(*   - ConnectionManager (per-host pools, admission, rate limit)           *)
(*   - ImapWorker (poll task: fetch, parse, submit, watermark)             *)
(*   - PollingScheduler and WorkerPool (schedules, task queue, retries)    *)
(* Each component has its own specification; the variables of the other    *)
(* components stay unchanged in it.                                        *)
(***************************************************************************)
EXTENDS Integers, Sequences, FiniteSets, TLC

(***************************************************************************)
(* Bounds of the model                                                     *)
(***************************************************************************)
\* number of ImapFlow objects that may be constructed in one behaviour
MaxSessions == 3

Mailboxes == {"m1"}
Tasks == {"t1", "t2"}
Procs == Tasks \cup {"sweeper", "remover"}
SessionIds == 1..MaxSessions

\* getConnection: const maxRetries = 3
maxRetries == 3

\* ConnectionManager: number of connection objects made in one behaviour
MaxConns == 3
QueueConns == 4
\* ConnectionManager constructor arguments (MAX_CONNECTIONS_PER_SERVER,
\* RATE_LIMIT_WINDOW, MAX_RATE_LIMIT), in units of the model clock
maxConnectionsPerServer == 1
rateLimitWindow == 2
maxRateLimit == 2
\* Date.now() at start, far above any window length, and the clock's range
Epoch == 10
ClockRange == 2

\* ImapWorker: largest EXISTS, runs per behaviour, messages that are not
\* well-formed, entries of one batch the sink may reject
MaxExists == 11
MaxRuns == 2
MaxOdd == 1
MaxRejected == 1
\* processNewMessages: const batchSize = 10; sendMessageBatch takes <= 10
batchSize == 10
sinkBatch == 10

\* Scheduler and worker pool: the clock runs from SchedStart for Horizon
\* steps of 30 s (FleetHorizon with the pool at work); at most MaxTasks
\* tasks are outstanding; the pool admits maxWorkers running tasks
SchedStart == 11
Horizon == 4
FleetHorizon == 6
MaxTasks == 2

\* time units a behaviour with failing addTask calls lasts
QuarantineHorizon == 30
maxWorkers == 1

\* addTask calls in a behaviour of the pool on its own
MaxPoolTasks == 3

TaskTypes == {"poll", "idle"}

\* upsertImapConnectionStatus calls in a behaviour, and their mailboxes
MaxCalls == 3
UpsertAccounts == {"a1", "a2"}

\* clients the IDLE tasks of a behaviour construct
MaxLockClients == 4
\* GET /health: number of requests in one behaviour
MaxHealthRequests == 3

MaxFetched == 2

StorageAccounts == {"a1", "a2", "a3"}

\* status counters: the highest value a counter takes, the highest value
\* in a row left by an earlier run, and the mailboxes with a status
MaxCount == 3
StoredMax == 2
StatusAccounts == {"a1"}
ConnectionStatus == {"connecting", "connected", "idle", "disconnected", "error", "reconnecting"}

\* config.workerPool.taskQueueSize (10000 in the configuration), scaled to
\* the number of tasks of a behaviour
taskQueueSize == 1

Accounts == {"a1", "a2", "a3"}
Scheduled == {"a1"}
\* the mailboxes of the IDLE bookkeeping: one provider with IDLE, one without
IdleAccounts == {"a1", "a4"}
WorkerOrder == <<"w1">>
Requests == {"r1", "r2", "r3"}
ConnIds == 1..QueueConns
QueueRequests == {"r1", "r2"}
Priorities == {"high", "medium", "low"}

VARIABLES
  \* ---- IMAPService ----
  clients,          \* IMAPService.clients: mailbox -> session id (0: no entry)
  session,          \* state of every ImapFlow object ever constructed
  owner,            \* mailbox an ImapFlow object was constructed for
  pc,               \* position of every asynchronous call chain
  box,              \* accountId argument of the running call
  cl,               \* local variable `client` of the running call
  attempt,          \* loop variable `attempt` of getConnection
  deadConnections,  \* local array of performSelfHealing
  probed            \* entries of clients the running sweep has probed

imapVars == <<clients, session, owner, pc, box, cl, attempt, deadConnections, probed>>

VARIABLES
  \* ---- ConnectionManager ----
  connectionPools,     \* ConnectionManager.connectionPools: host -> pool
  accountConnections,  \* ConnectionManager.accountConnections: account -> host
  connectionQueue,     \* ConnectionManager.connectionQueue (parked requests)
  conn,                \* every connection object made: "none", "connected", "disconnected"
  connHost,            \* serverHost of a connection object
  rpc,                 \* position of every getConnection request
  racct,               \* accountId of the request
  cmNow,               \* Date.now()
  creations            \* host -> time -> number of sessions created at that time

VARIABLES
  \* ---- ImapWorker (one mailbox) ----
  exists,       \* EXISTS of INBOX on the server
  kind,         \* what FETCH returns for a sequence number: "ok", "noid", "bad"
  runPc,        \* position of the running poll / IDLE notification handler
  runKind,      \* "poll" or "idle"
  runStart,     \* startMessage of processNewMessages
  runEnd,       \* endMessage of processNewMessages
  cursor,       \* loop variable i of the fetch loop
  messages,     \* local array messages of processNewMessages
  fetched,      \* sequence numbers FETCH has returned in this run
  unfetched,    \* sequence numbers of batches whose FETCH failed in this run
  skipped,      \* sequence numbers skipped by the required-fields check
  handed,       \* sequence numbers passed to sendMessageBatch in this run
  rejected,     \* entries the sink reported as Failed in this run
  sink,         \* sequence numbers the sink accepted, in order
  lastOutcome,  \* how the last poll ended: "none", "ok", "failed"
  lastUpdate,   \* count passed to the last updateLastProcessedCount call
  okExists,     \* EXISTS seen by the last poll that ended "ok" (0: none)
  runs          \* number of runs started

VARIABLES
  \* ---- PollingScheduler and WorkerPool ----
  now,            \* Date.now(), in units of 30 s
  schedules,      \* PollingScheduler.schedules
  scheduleOrder,  \* insertion order of the schedules Map
  pollingTimers,  \* PollingScheduler.pollingTimers: due time, and whether it has fired
  taskQueue,      \* WorkerPool.taskQueue
  workers,        \* WorkerPool.workers
  activeWorkers,  \* WorkerPool.activeWorkers
  retryTimers,    \* tasks waiting in a retry setTimeout
  tasksAdded,     \* number of addTask calls
  lastAdded,      \* accountId of the last addTask call
  skippedOverdue, \* overdue mailboxes the last tick passed over as inactive
  failStreak,     \* consecutive poll tasks of a mailbox that failed for good
  detached,       \* executions still running after their worker was reset
  executions      \* how many times each task was started

schedVars == <<now, schedules, scheduleOrder, pollingTimers, taskQueue, workers, activeWorkers,
               retryTimers, tasksAdded, lastAdded, skippedOverdue, failStreak,
               detached, executions>>

pollVars == <<exists, kind, runPc, runKind, runStart, runEnd, cursor, messages, fetched,
              unfetched, skipped, handed, rejected, sink, lastOutcome, lastUpdate,
              okExists, runs>>

cmVars == <<connectionPools, accountConnections, connectionQueue, conn, connHost,
            rpc, racct, cmNow, creations>>

VARIABLES
  \* ---- SupabaseDatabaseService ----
  ongoingUpserts,  \* ongoingUpserts: mailbox -> promise of performUpsert, 0 when absent
  upserts,         \* every performUpsert promise: its mailbox, how far it is, requests sent
  calls,           \* every upsertImapConnectionStatus call: position, mailbox, promise
  statusRow,       \* imap_connection_status: mailbox -> the call whose connectionData the row holds, 0 when none
  latestCall       \* mailbox -> the upsertImapConnectionStatus call made last, 0 when none

upsertVars == <<ongoingUpserts, upserts, calls, statusRow, latestCall>>

VARIABLES
  \* ---- the process (index.ts) ----
  isShuttingDown,  \* let isShuttingDown
  shutdownPc       \* position of gracefulShutdown: "none" until it is called

appVars == <<isShuttingDown, shutdownPc>>

VARIABLES
  \* ---- IMAPService status records ----
  connectionStatuses,  \* IMAPService.connectionStatuses: mailbox -> record, <<>> when absent
  stored               \* the imap_connection_status row of a mailbox in the store, <<>> when absent

statusVars == <<connectionStatuses, stored>>

VARIABLES
  \* ---- ImapWorker.executeIdleTask ----
  wpc,          \* position of the IDLE task of every worker
  cached,       \* the client imapService.getConnection holds for the mailbox of the task, 0 for none
  outerClient,  \* connection of executeIdleTask
  innerClient,  \* connection of the executePollTask it falls back to
  lock,         \* INBOX lock of every client: <<>> when free, else <<task, frame>>
  clientsMade,  \* clients constructed so far
  idleReports   \* handleIdleTaskCompletion calls of the task: <<successes, failures>>

idleTaskVars == <<wpc, cached, outerClient, innerClient, lock, clientsMade, idleReports>>

VARIABLES
  \* ---- WorkerPool.shutdown ----
  poolShutdown    \* position of shutdown(): "running" (not called), "waiting", "completed"

poolShutdownVars == <<poolShutdown>>

VARIABLES
  \* ---- IMAPService: monitoring of a mailbox ----
  idleConnections,   \* IMAPService.idleConnections: mailbox -> "none" (no entry), "true", "false"
  pollingIntervals,  \* IMAPService.pollingIntervals: mailbox -> session of the stored interval (0: no entry)
  pollTimers,        \* sessions whose fallbackToPolling interval is running
  noopTimers,        \* sessions whose keep-alive NOOP interval is running
  pollFailures       \* consecutiveFailures of the fallback interval of a session

monitorVars == <<idleConnections, pollingIntervals, pollTimers, noopTimers, pollFailures>>

VARIABLES
  \* ---- GET /health ----
  healthPc,       \* position of the running request: "idle", "settled", "answered"
  checks,         \* what Promise.allSettled returned: the outcome of every check
  depthThrows,    \* getQueueDepth() rejects while the summary is built
  healthStatus,   \* status of the body of the last answer ("none" before the first)
  statusCode,     \* HTTP status of the last answer (0 before the first)
  healthRequests  \* number of requests answered

healthVars == <<healthPc, checks, depthThrows, healthStatus, statusCode, healthRequests>>

VARIABLES
  \* ---- OrchestratorService ----
  accounts,           \* OrchestratorService.accounts: account -> [present, isActive]
  accountPriorities   \* OrchestratorService.accountPriorities: account -> priority ("none": no entry)

orchVars == <<accounts, accountPriorities>>

VARIABLES
  \* ---- memory-storage ----
  memoryAccounts,   \* const accounts: id -> <<EmailAccount>>, <<>> when the map has no entry
  activeAccountIds  \* const activeAccountIds: the ids of the Set in insertion order

storageVars == <<memoryAccounts, activeAccountIds>>

vars == <<imapVars, cmVars, pollVars, schedVars, upsertVars, appVars, statusVars, idleTaskVars, poolShutdownVars, monitorVars, healthVars, orchVars, storageVars>>

\* what the operations of one component leave alone: the other components
ImapFrame == UNCHANGED <<cmVars, pollVars, schedVars, upsertVars, appVars, statusVars, idleTaskVars, poolShutdownVars, monitorVars, healthVars, orchVars, storageVars>>
CmFrame == UNCHANGED <<imapVars, pollVars, schedVars, upsertVars, appVars, statusVars, idleTaskVars, poolShutdownVars, monitorVars, healthVars, orchVars, storageVars>>
PollFrame == UNCHANGED <<imapVars, cmVars, schedVars, upsertVars, appVars, statusVars, idleTaskVars, poolShutdownVars, monitorVars, healthVars, orchVars, storageVars>>
SchedFrame == UNCHANGED <<imapVars, cmVars, pollVars, upsertVars, appVars, statusVars, idleTaskVars, poolShutdownVars, monitorVars, healthVars, orchVars, storageVars>>
UpsertFrame == UNCHANGED <<imapVars, cmVars, pollVars, schedVars, appVars, statusVars, idleTaskVars, poolShutdownVars, monitorVars, healthVars, orchVars, storageVars>>
ShutdownFrame == UNCHANGED <<cmVars, pollVars, schedVars, upsertVars, statusVars, idleTaskVars, poolShutdownVars, monitorVars, healthVars, orchVars, storageVars>>
StatusFrame == UNCHANGED <<imapVars, cmVars, pollVars, schedVars, upsertVars, appVars, idleTaskVars, poolShutdownVars, monitorVars, healthVars, orchVars, storageVars>>
IdleTaskFrame == UNCHANGED <<imapVars, cmVars, pollVars, schedVars, upsertVars, appVars, statusVars, poolShutdownVars, monitorVars, healthVars, orchVars, storageVars>>
PoolShutdownFrame == UNCHANGED <<imapVars, cmVars, pollVars, schedVars, upsertVars, appVars, statusVars, idleTaskVars, monitorVars, healthVars, orchVars, storageVars>>
MonitorFrame == UNCHANGED <<cmVars, pollVars, schedVars, upsertVars, appVars, statusVars, idleTaskVars, poolShutdownVars, healthVars, orchVars, storageVars>>
HealthFrame == UNCHANGED <<imapVars, cmVars, pollVars, schedVars, upsertVars, appVars, statusVars, idleTaskVars, poolShutdownVars, monitorVars, orchVars, storageVars>>
OrchFrame == UNCHANGED <<imapVars, cmVars, pollVars, upsertVars, appVars, statusVars, idleTaskVars, poolShutdownVars, monitorVars, healthVars, storageVars>>
StorageFrame == UNCHANGED <<imapVars, cmVars, pollVars, schedVars, upsertVars, appVars, statusVars, idleTaskVars, poolShutdownVars, monitorVars, healthVars, orchVars>>

(***************************************************************************)
(* IMAPService                                                             *)
(***************************************************************************)
ImapInit ==
  /\ clients = [m \in Mailboxes |-> 0]
  /\ session = [s \in SessionIds |-> "none"]
  /\ owner = [s \in SessionIds |-> "none"]
  /\ pc = [p \in Procs |-> "idle"]
  /\ box = [p \in Procs |-> "none"]
  /\ cl = [p \in Procs |-> 0]
  /\ attempt = [t \in Tasks |-> 1]
  /\ deadConnections = {}
  /\ probed = {}

\* an ImapFlow object that was constructed and neither logged out nor lost
Live(s) == session[s] \in {"created", "connected"}

LiveSessions(m) == {s \in SessionIds : owner[s] = m /\ Live(s)}

\* client.noop() resolves only on a connected client
NoopOk(c) == c # 0 /\ session[c] = "connected"

FreeIds == {s \in SessionIds : session[s] = "none"}

\* the call chain p ends; its locals are dropped
Finish(p) ==
  /\ pc' = [pc EXCEPT ![p] = "idle"]
  /\ box' = [box EXCEPT ![p] = "none"]
  /\ cl' = [cl EXCEPT ![p] = 0]

\* one pass of the retry loop of getConnection: createImapClient constructs
\* an ImapFlow object, or throws and the loop waits or gives up
CreateAttempt(t, m, att) ==
  \/ /\ FreeIds # {}
     /\ LET s == CHOOSE x \in FreeIds : \A y \in FreeIds : x <= y IN
        /\ session' = [session EXCEPT ![s] = "created"]
        /\ owner' = [owner EXCEPT ![s] = m]
        /\ cl' = [cl EXCEPT ![t] = s]
     /\ pc' = [pc EXCEPT ![t] = "gc_set"]
     /\ box' = [box EXCEPT ![t] = m]
     /\ attempt' = [attempt EXCEPT ![t] = att]
  \/ /\ att < maxRetries
     /\ pc' = [pc EXCEPT ![t] = "gc_delay"]
     /\ box' = [box EXCEPT ![t] = m]
     /\ cl' = [cl EXCEPT ![t] = 0]
     /\ attempt' = [attempt EXCEPT ![t] = att + 1]
     /\ UNCHANGED <<session, owner>>
  \/ /\ att = maxRetries
     /\ Finish(t)
     /\ attempt' = [attempt EXCEPT ![t] = 1]
     /\ UNCHANGED <<session, owner>>

\* the synchronous head of removeAccount(m) run by p: reads clients and
\* either starts the logout or returns at once
RemoveHead(p, m, ret) ==
  IF clients[m] # 0
    THEN /\ pc' = [pc EXCEPT ![p] = "rm_logout"]
         /\ cl' = [cl EXCEPT ![p] = clients[m]]
         /\ box' = [box EXCEPT ![p] = m]
    ELSE /\ pc' = [pc EXCEPT ![p] = ret]
         /\ cl' = [cl EXCEPT ![p] = 0]
         /\ box' = [box EXCEPT ![p] = m]

\* where a call chain continues when its removeAccount has returned
AfterRemove(p) ==
  IF p \in Tasks THEN "gc_after_rm"
  ELSE IF p = "sweeper" THEN "sw_remove"
  ELSE "rm_done"

\* executePollTask calls getConnection: the map is read, then either the
\* cached client is probed or a new one is constructed
GetConnection(t, m) ==
  /\ pc[t] = "idle"
  /\ IF clients[m] # 0
       THEN /\ pc' = [pc EXCEPT ![t] = "gc_noop"]
            /\ cl' = [cl EXCEPT ![t] = clients[m]]
            /\ box' = [box EXCEPT ![t] = m]
            /\ UNCHANGED <<session, owner, attempt>>
       ELSE CreateAttempt(t, m, 1)
  /\ UNCHANGED <<clients, deadConnections, probed>>
  /\ ImapFrame

\* await client.noop() settles: the cached client is returned, or it is
\* removed and recreated
GetConnectionNoop(t) ==
  /\ pc[t] = "gc_noop"
  /\ IF NoopOk(cl[t])
       THEN pc' = [pc EXCEPT ![t] = "have"] /\ UNCHANGED <<cl, box>>
       ELSE RemoveHead(t, box[t], "gc_after_rm")
  /\ UNCHANGED <<clients, session, owner, attempt, deadConnections, probed>>
  /\ ImapFrame

\* removeAccount after await client.logout(): the client read at the head
\* is closed and whatever entry the map has now is deleted
RemoveLogout(p) ==
  /\ pc[p] = "rm_logout"
  /\ session' = [session EXCEPT ![cl[p]] = "closed"]
  /\ clients' = [clients EXCEPT ![box[p]] = 0]
  /\ pc' = [pc EXCEPT ![p] = "rm_status"]
  /\ UNCHANGED <<owner, box, cl, attempt, deadConnections, probed>>
  /\ ImapFrame

\* removeAccount after await updateConnectionStatus: it returns
RemoveReturn(p) ==
  /\ pc[p] = "rm_status"
  /\ IF AfterRemove(p) = "rm_done"
       THEN Finish(p)
       ELSE /\ pc' = [pc EXCEPT ![p] = AfterRemove(p)]
            /\ cl' = [cl EXCEPT ![p] = 0]
            /\ UNCHANGED box
  /\ UNCHANGED <<clients, session, owner, attempt, deadConnections, probed>>
  /\ ImapFrame

\* getConnection continues after removeAccount, or after the retry delay
GetConnectionCreate(t) ==
  /\ pc[t] \in {"gc_after_rm", "gc_delay"}
  /\ CreateAttempt(t, box[t], IF pc[t] = "gc_delay" THEN attempt[t] ELSE 1)
  /\ UNCHANGED <<clients, deadConnections, probed>>
  /\ ImapFrame

\* after await createImapClient: the new client is stored and returned
GetConnectionSet(t) ==
  /\ pc[t] = "gc_set"
  /\ clients' = [clients EXCEPT ![box[t]] = cl[t]]
  /\ pc' = [pc EXCEPT ![t] = "have"]
  /\ attempt' = [attempt EXCEPT ![t] = 1]
  /\ UNCHANGED <<session, owner, box, cl, deadConnections, probed>>
  /\ ImapFrame

\* executePollTask probes the connection it was given
WorkerNoop(t) ==
  /\ pc[t] = "have"
  /\ pc' = [pc EXCEPT ![t] = IF NoopOk(cl[t]) THEN "work" ELSE "connecting"]
  /\ UNCHANGED <<clients, session, owner, box, cl, attempt, deadConnections, probed>>
  /\ ImapFrame

\* releaseConnection(accountId) only logs; the task gives the client up
ReleaseConnection(t) ==
  /\ Finish(t)
  /\ UNCHANGED <<clients, session, owner, attempt, deadConnections, probed>>

\* await connection.connect(): a fresh client connects, a closed one throws
WorkerConnect(t) ==
  /\ pc[t] = "connecting"
  /\ IF session[cl[t]] = "created"
       THEN /\ session' = [session EXCEPT ![cl[t]] = "connected"]
            /\ pc' = [pc EXCEPT ![t] = "work"]
            /\ UNCHANGED <<clients, owner, box, cl, attempt, deadConnections, probed>>
       ELSE ReleaseConnection(t) /\ UNCHANGED session
  /\ ImapFrame

\* the mailbox work of the task ends (either way) and the finally block
\* calls releaseConnection
WorkerDone(t) ==
  /\ pc[t] = "work"
  /\ ReleaseConnection(t)
  /\ ImapFrame

\* the server or the network drops a connected session
Drop(s) ==
  /\ session[s] = "connected"
  /\ session' = [session EXCEPT ![s] = "dead"]
  /\ UNCHANGED <<clients, owner, pc, box, cl, attempt, deadConnections, probed>>
  /\ ImapFrame

\* performSelfHealing starts its pass over the clients map
SweepStart ==
  /\ pc["sweeper"] = "idle"
  /\ pc' = [pc EXCEPT !["sweeper"] = "sw_check"]
  /\ box' = [box EXCEPT !["sweeper"] = "none"]
  /\ deadConnections' = {}
  /\ probed' = {}
  /\ UNCHANGED <<clients, session, owner, cl, attempt>>
  /\ ImapFrame

\* entries of the clients map the pass has not probed yet
SweepTodo == {m \in Mailboxes : clients[m] # 0 /\ m \notin probed}

\* one iteration of the probing loop: await client.noop()
SweepCheck ==
  /\ pc["sweeper"] = "sw_check"
  /\ \E m \in SweepTodo :
       /\ probed' = probed \cup {m}
       /\ deadConnections' =
            IF NoopOk(clients[m]) THEN deadConnections ELSE deadConnections \cup {m}
  /\ UNCHANGED <<clients, session, owner, pc, box, cl, attempt>>
  /\ ImapFrame

\* the probing loop is over; the removals start
SweepChecked ==
  /\ pc["sweeper"] = "sw_check"
  /\ SweepTodo = {}
  /\ pc' = [pc EXCEPT !["sweeper"] = "sw_remove"]
  /\ UNCHANGED <<clients, session, owner, box, cl, attempt, deadConnections, probed>>
  /\ ImapFrame

\* for (const accountId of deadConnections) await this.removeAccount(accountId)
SweepRemove ==
  /\ pc["sweeper"] = "sw_remove"
  /\ IF deadConnections = {}
       THEN Finish("sweeper") /\ UNCHANGED deadConnections
       ELSE \E m \in deadConnections :
              /\ deadConnections' = deadConnections \ {m}
              /\ RemoveHead("sweeper", m, "sw_remove")
  /\ UNCHANGED <<clients, session, owner, attempt, probed>>
  /\ ImapFrame

\* removeAccount(m) called from outside (account deactivated, shutdown)
RemoveAccount(m) ==
  /\ pc["remover"] = "idle"
  /\ IF clients[m] # 0
       THEN RemoveHead("remover", m, "idle")
       ELSE UNCHANGED <<pc, cl, box>>
  /\ UNCHANGED <<clients, session, owner, attempt, deadConnections, probed>>
  /\ ImapFrame

ImapNext ==
  \/ \E t \in Tasks, m \in Mailboxes : GetConnection(t, m)
  \/ \E t \in Tasks : GetConnectionNoop(t)
  \/ \E p \in Procs : RemoveLogout(p)
  \/ \E p \in Procs : RemoveReturn(p)
  \/ \E t \in Tasks : GetConnectionCreate(t)
  \/ \E t \in Tasks : GetConnectionSet(t)
  \/ \E t \in Tasks : WorkerNoop(t)
  \/ \E t \in Tasks : WorkerConnect(t)
  \/ \E t \in Tasks : WorkerDone(t)
  \/ \E s \in SessionIds : Drop(s)
  \/ SweepStart
  \/ SweepCheck
  \/ SweepChecked
  \/ SweepRemove
  \/ \E m \in Mailboxes : RemoveAccount(m)

(***************************************************************************)
(* IMAPService.updateConnectionStatus and the store row                    *)
(***************************************************************************)
Counters == [connectionAttempts : 0..MaxCount, successfulConnections : 0..MaxCount,
             failedConnections : 0..MaxCount, emailsProcessed : 0..MaxCount]

ZeroCounters ==
  [connectionAttempts |-> 0, successfulConnections |-> 0, failedConnections |-> 0,
   emailsProcessed |-> 0]

\* the service starts with an empty map; the store has no row of the
\* mailbox, or the row an earlier run of the service left
StatusInit ==
  /\ connectionStatuses = [a \in StatusAccounts |-> <<>>]
  /\ stored \in [StatusAccounts ->
                  {<<>>} \cup {<<c>> : c \in {x \in Counters :
                       /\ x.connectionAttempts = x.successfulConnections + x.failedConnections
                       /\ x.connectionAttempts <= StoredMax
                       /\ x.emailsProcessed <= StoredMax}}]

\* the switch of updateConnectionStatus on the new status
Bumped(c, status) ==
  CASE status = "connected" ->
         [c EXCEPT !.successfulConnections = @ + 1, !.connectionAttempts = @ + 1]
    [] status = "error" ->
         [c EXCEPT !.failedConnections = @ + 1, !.connectionAttempts = @ + 1]
    [] OTHER -> c

\* performUpsert through upsertImapConnectionStatus: the row is updated
\* with the counters of connectionData, or inserted with them; when the
\* store fails the row stays and the error is only logged
Upserted(a, c, dbOk) == IF dbOk THEN [stored EXCEPT ![a] = <<c>>] ELSE stored

\* updateConnectionStatus: the record of the map, or a new one with zero
\* counters, gets the status and its counters, is put in the map and sent
\* to the store
UpdateConnectionStatus(a, status, dbOk) ==
  /\ LET old == IF connectionStatuses[a] = <<>> THEN ZeroCounters ELSE connectionStatuses[a][1]
         new == Bumped(old, status)
     IN /\ old.connectionAttempts < MaxCount
        /\ connectionStatuses' = [connectionStatuses EXCEPT ![a] = <<new>>]
        /\ stored' = Upserted(a, new, dbOk)
  /\ StatusFrame

\* updateEmailProcessed: nothing without a record in the map
UpdateEmailProcessed(a, dbOk) ==
  /\ connectionStatuses[a] # <<>>
  /\ connectionStatuses[a][1].emailsProcessed < MaxCount
  /\ LET new == [connectionStatuses[a][1] EXCEPT !.emailsProcessed = @ + 1]
     IN /\ connectionStatuses' = [connectionStatuses EXCEPT ![a] = <<new>>]
        /\ stored' = Upserted(a, new, dbOk)
  /\ StatusFrame

StatusNext ==
  \/ \E a \in StatusAccounts, status \in ConnectionStatus, dbOk \in BOOLEAN :
       UpdateConnectionStatus(a, status, dbOk)
  \/ \E a \in StatusAccounts, dbOk \in BOOLEAN : UpdateEmailProcessed(a, dbOk)

\* C21: no step lowers a counter of the stored row of a mailbox.
StoredCountersNeverDecrease ==
  [][\A a \in StatusAccounts :
       stored[a] # <<>>
         => /\ stored'[a] # <<>>
            /\ stored'[a][1].connectionAttempts >= stored[a][1].connectionAttempts
            /\ stored'[a][1].successfulConnections >= stored[a][1].successfulConnections
            /\ stored'[a][1].failedConnections >= stored[a][1].failedConnections
            /\ stored'[a][1].emailsProcessed >= stored[a][1].emailsProcessed]_vars

(***************************************************************************)
(* GET /health and getHealthStatus                                         *)
(***************************************************************************)
\* outcome of one dependency check: resolved true, resolved false, rejected
CheckOutcomes == {"true", "false", "rejected"}

HealthInit ==
  /\ healthPc = "idle"
  /\ checks = <<>>
  /\ depthThrows = FALSE
  /\ healthStatus = "none"
  /\ statusCode = 0
  /\ healthRequests = 0

HealthQuiet == HealthInit

\* checks.map(check => check.status === 'fulfilled' && check.value)
Fulfilled(cs) == [i \in 1..Len(cs) |-> cs[i] = "true"]

\* an element of the array destructuring: a position past the end of the
\* array gives undefined, which is falsy
Destructured(arr, i) == IF i <= Len(arr) THEN arr[i] ELSE FALSE

\* the status getHealthStatus computes from the settled checks
summaryStatus(cs) ==
  LET memoryHealthy == Destructured(Fulfilled(cs), 1)
      sqsHealthy == Destructured(Fulfilled(cs), 2)
      imapHealthy == Destructured(Fulfilled(cs), 3) IN
  IF ~memoryHealthy /\ ~sqsHealthy /\ ~imapHealthy THEN "unhealthy"
  ELSE IF ~memoryHealthy \/ ~sqsHealthy \/ ~imapHealthy THEN "degraded"
  ELSE "healthy"

\* the status code the handler of GET /health picks
codeOf(status) == IF status = "healthy" THEN 200 ELSE IF status = "degraded" THEN 200 ELSE 503

\* GET /health arrives and Promise.allSettled([sqsHealthCheck(),
\* imapService.healthCheck()]) resolves
HealthChecksSettled(sqs, imap, throws) ==
  /\ healthPc \in {"idle", "answered"}
  /\ healthRequests < MaxHealthRequests
  /\ healthPc' = "settled"
  /\ checks' = <<sqs, imap>>
  /\ depthThrows' = throws
  /\ UNCHANGED <<healthStatus, statusCode, healthRequests>>
  /\ HealthFrame

\* the summary is built and the handler answers; when getHealthStatus
\* throws, the catch of the handler answers 503 with status unhealthy
HealthAnswer ==
  /\ healthPc = "settled"
  /\ healthPc' = "answered"
  /\ healthStatus' = IF depthThrows THEN "unhealthy" ELSE summaryStatus(checks)
  /\ statusCode' = IF depthThrows THEN 503 ELSE codeOf(summaryStatus(checks))
  /\ healthRequests' = healthRequests + 1
  /\ UNCHANGED <<checks, depthThrows>>
  /\ HealthFrame

HealthNext ==
  \/ \E sqs \in CheckOutcomes, imap \in CheckOutcomes, throws \in BOOLEAN :
       HealthChecksSettled(sqs, imap, throws)
  \/ HealthAnswer

Passed(cs) == {i \in 1..Len(cs) : cs[i] = "true"}

\* C31: for every combination of check results the summary is healthy
\* exactly when every check passed, unhealthy when all of them failed and
\* degraded otherwise, and the answer is 503 exactly when the status is
\* unhealthy and 200 otherwise (answers of a request whose summary was built).
HealthSummaryMatchesChecks ==
  (healthPc = "answered" /\ ~depthThrows) =>
    /\ healthStatus = (IF Passed(checks) = 1..Len(checks) THEN "healthy"
                       ELSE IF Passed(checks) = {} THEN "unhealthy"
                       ELSE "degraded")
    /\ statusCode = (IF healthStatus = "unhealthy" THEN 503 ELSE 200)

(***************************************************************************)
(* IMAPService: initializeAccountFromDB, startMonitoring, the fallback     *)
(* poller and removeAccount                                                *)
(***************************************************************************)
MonitorInit ==
  /\ idleConnections = [m \in Mailboxes |-> "none"]
  /\ pollingIntervals = [m \in Mailboxes |-> 0]
  /\ pollTimers = {}
  /\ noopTimers = {}
  /\ pollFailures = [s \in SessionIds |-> 0]

MonitorQuiet == MonitorInit

maxConsecutiveFailures == 3

\* initializeAccountFromDB returns early on a client that is monitored by
\* IDLE and answers NOOP
AlreadyMonitored(m) ==
  clients[m] # 0 /\ idleConnections[m] = "true" /\ NoopOk(clients[m])

\* initializeAccountFromDB(m): an IDLE-monitored client that fails NOOP is
\* removed; a client is constructed and stored; startMonitoring connects it
\* and watchForNewMessages either gets IDLE going (the entry of
\* idleConnections becomes true and the NOOP interval starts) or falls back
\* to polling (the interval starts and is stored in pollingIntervals).
\* statusOk: client.status at the head of fallbackToPolling resolved
InitializeAccountFromDB(m, idleOk, statusOk) ==
  /\ ~AlreadyMonitored(m)
  /\ FreeIds # {}
  /\ LET s == CHOOSE x \in FreeIds : \A y \in FreeIds : x <= y
         removed == clients[m] # 0 /\ idleConnections[m] = "true"
         S1 == IF removed THEN [session EXCEPT ![clients[m]] = "closed"] ELSE session
         I1 == IF removed THEN [idleConnections EXCEPT ![m] = "none"] ELSE idleConnections IN
     /\ session' = [S1 EXCEPT ![s] = "connected"]
     /\ owner' = [owner EXCEPT ![s] = m]
     /\ clients' = [clients EXCEPT ![m] = s]
     /\ IF idleOk
          THEN /\ idleConnections' = [I1 EXCEPT ![m] = "true"]
               /\ noopTimers' = noopTimers \cup {s}
               /\ UNCHANGED <<pollingIntervals, pollTimers, pollFailures>>
          ELSE /\ idleConnections' = I1
               /\ pollTimers' = pollTimers \cup {s}
               /\ pollingIntervals' = [pollingIntervals EXCEPT ![m] = s]
               /\ pollFailures' = [pollFailures EXCEPT ![s] = IF statusOk THEN 0 ELSE 1]
               /\ UNCHANGED noopTimers
  /\ UNCHANGED <<pc, box, cl, attempt, deadConnections, probed>>
  /\ MonitorFrame

\* removeAccount(m) on a mailbox that has a client: the entry of
\* idleConnections is set false, the client logs out, and the entries of
\* clients and idleConnections are deleted
MonitorRemoveAccount(m) ==
  /\ clients[m] # 0
  /\ session' = [session EXCEPT ![clients[m]] = "closed"]
  /\ clients' = [clients EXCEPT ![m] = 0]
  /\ idleConnections' = [idleConnections EXCEPT ![m] = "none"]
  /\ UNCHANGED <<owner, pc, box, cl, attempt, deadConnections, probed>>
  /\ UNCHANGED <<pollingIntervals, pollTimers, noopTimers, pollFailures>>
  /\ MonitorFrame

\* the callback of the fallback interval of session s: it stops when the
\* mailbox has no client; a failed NOOP counts, and at
\* maxConsecutiveFailures the interval is cleared and the entry of the
\* mailbox in pollingIntervals is deleted; otherwise the mailbox is polled
PollTimerFire(s) ==
  /\ s \in pollTimers
  /\ IF clients[owner[s]] = 0
       THEN /\ pollTimers' = pollTimers \ {s}
            /\ UNCHANGED <<pollingIntervals, pollFailures>>
     ELSE IF ~NoopOk(s)
       THEN IF pollFailures[s] + 1 >= maxConsecutiveFailures
              THEN /\ pollTimers' = pollTimers \ {s}
                   /\ pollingIntervals' = [pollingIntervals EXCEPT ![owner[s]] = 0]
                   /\ pollFailures' = [pollFailures EXCEPT ![s] = @ + 1]
              ELSE /\ pollFailures' = [pollFailures EXCEPT ![s] = @ + 1]
                   /\ UNCHANGED <<pollTimers, pollingIntervals>>
     ELSE /\ pollFailures' = [pollFailures EXCEPT ![s] = 0]
          /\ UNCHANGED <<pollTimers, pollingIntervals>>
  /\ UNCHANGED <<idleConnections, noopTimers>>
  /\ UNCHANGED imapVars
  /\ MonitorFrame

\* the connection of a session is lost
MonitorDrop(s) ==
  /\ session[s] = "connected"
  /\ session' = [session EXCEPT ![s] = "dead"]
  /\ UNCHANGED <<clients, owner, pc, box, cl, attempt, deadConnections, probed>>
  /\ UNCHANGED monitorVars
  /\ MonitorFrame

\* The callback of the NOOP interval only sends NOOP while the entry of
\* idleConnections is true; its handle is stored nowhere.
MonitorNext ==
  \/ \E m \in Mailboxes, idleOk \in BOOLEAN, statusOk \in BOOLEAN :
       InitializeAccountFromDB(m, idleOk, statusOk)
  \/ \E m \in Mailboxes : MonitorRemoveAccount(m)
  \/ \E s \in SessionIds : PollTimerFire(s)
  \/ \E s \in SessionIds : MonitorDrop(s)

\* C30: when removeAccount(m) has returned, no fallback interval and no
\* NOOP interval of m is running and m has no entry in clients,
\* idleConnections or pollingIntervals; and when a mailbox without a client
\* is connected again, no fallback interval of an earlier session of it runs.
RemoveAccountStopsTimers ==
  [][\A m \in Mailboxes :
       /\ MonitorRemoveAccount(m) =>
            /\ \A s \in pollTimers' \cup noopTimers' : owner'[s] # m
            /\ clients'[m] = 0
            /\ idleConnections'[m] = "none"
            /\ pollingIntervals'[m] = 0
       /\ (clients[m] = 0 /\ clients'[m] # 0) =>
            \A s \in pollTimers' : owner'[s] = m => s = clients'[m]]_vars

(***************************************************************************)
(* ImapWorker.executeIdleTask and its fallback to executePollTask          *)
(***************************************************************************)
LockClients == 1..MaxLockClients

IdleTaskInit ==
  /\ wpc = [t \in Tasks |-> "idle"]
  /\ cached = [t \in Tasks |-> 0]
  /\ outerClient = [t \in Tasks |-> 0]
  /\ innerClient = [t \in Tasks |-> 0]
  /\ lock = [c \in LockClients |-> <<>>]
  /\ clientsMade = 0
  /\ idleReports = [t \in Tasks |-> <<0, 0>>]

\* pollingScheduler.handleIdleTaskCompletion(accountId, success) is called
Reported(R, t, success) ==
  [R EXCEPT ![t] = IF success THEN <<@[1] + 1, @[2]>> ELSE <<@[1], @[2] + 1>>]

\* executeIdleTask up to await getMailboxLock: getConnection returns the
\* cached client of the mailbox or constructs one
StartIdleTask(t) ==
  /\ wpc[t] = "idle"
  /\ IF cached[t] # 0
       THEN /\ outerClient' = [outerClient EXCEPT ![t] = cached[t]]
            /\ UNCHANGED <<cached, clientsMade>>
       ELSE /\ clientsMade < MaxLockClients
            /\ clientsMade' = clientsMade + 1
            /\ cached' = [cached EXCEPT ![t] = clientsMade + 1]
            /\ outerClient' = [outerClient EXCEPT ![t] = clientsMade + 1]
  /\ wpc' = [wpc EXCEPT ![t] = "o_lock"]
  /\ UNCHANGED <<innerClient, lock, idleReports>>
  /\ IdleTaskFrame

\* connection.getMailboxLock('INBOX') resolves: the lock of the client is
\* free; a second request on the same client waits for lock.release()
OuterLock(t) ==
  /\ wpc[t] = "o_lock"
  /\ lock[outerClient[t]] = <<>>
  /\ lock' = [lock EXCEPT ![outerClient[t]] = <<t, "idle">>]
  /\ wpc' = [wpc EXCEPT ![t] = "o_idle"]
  /\ UNCHANGED <<cached, outerClient, innerClient, clientsMade, idleReports>>
  /\ IdleTaskFrame

\* Promise.race([idlePromise, timeoutPromise]) resolves: the task waits for
\* a signal, an error or a close
IdleEstablished(t) ==
  /\ wpc[t] = "o_idle"
  /\ wpc' = [wpc EXCEPT ![t] = "o_wait"]
  /\ UNCHANGED <<cached, outerClient, innerClient, lock, clientsMade, idleReports>>
  /\ IdleTaskFrame

\* the race rejects (IDLE startup failed), or the wait rejects: the catch
\* reports the failure and calls executePollTask(task), which awaits
\* getConnection while the INBOX lock is held
IdleFails(t) ==
  /\ wpc[t] \in {"o_idle", "o_wait"}
  /\ idleReports' = Reported(idleReports, t, FALSE)
  /\ wpc' = [wpc EXCEPT ![t] = "f_conn"]
  /\ UNCHANGED <<cached, outerClient, innerClient, lock, clientsMade>>
  /\ IdleTaskFrame

\* the wait resolves on SIGTERM or SIGINT: success is reported, the lock
\* and the connection are released
IdleCompleted(t) ==
  /\ wpc[t] = "o_wait"
  /\ idleReports' = Reported(idleReports, t, TRUE)
  /\ lock' = [lock EXCEPT ![outerClient[t]] = <<>>]
  /\ wpc' = [wpc EXCEPT ![t] = "done"]
  /\ UNCHANGED <<cached, outerClient, innerClient, clientsMade>>
  /\ IdleTaskFrame

\* getConnection of the fallback: the cached client when its NOOP
\* succeeds, else a new client
FallbackGetConnection(t, healthy) ==
  /\ wpc[t] = "f_conn"
  /\ IF healthy
       THEN /\ innerClient' = [innerClient EXCEPT ![t] = cached[t]]
            /\ UNCHANGED <<cached, clientsMade>>
       ELSE /\ clientsMade < MaxLockClients
            /\ clientsMade' = clientsMade + 1
            /\ cached' = [cached EXCEPT ![t] = clientsMade + 1]
            /\ innerClient' = [innerClient EXCEPT ![t] = clientsMade + 1]
  /\ wpc' = [wpc EXCEPT ![t] = "f_lock"]
  /\ UNCHANGED <<outerClient, lock, idleReports>>
  /\ IdleTaskFrame

\* getMailboxLock of the fallback resolves
FallbackLock(t) ==
  /\ wpc[t] = "f_lock"
  /\ lock[innerClient[t]] = <<>>
  /\ lock' = [lock EXCEPT ![innerClient[t]] = <<t, "poll">>]
  /\ wpc' = [wpc EXCEPT ![t] = "f_work"]
  /\ UNCHANGED <<cached, outerClient, innerClient, clientsMade, idleReports>>
  /\ IdleTaskFrame

\* the fallback poll ends: its lock is released; executeIdleTask releases
\* its own lock, reports a failure once more when the poll threw, and
\* releases the connection
FallbackDone(t, ok) ==
  /\ wpc[t] = "f_work"
  /\ lock' = [lock EXCEPT ![innerClient[t]] = <<>>, ![outerClient[t]] = <<>>]
  /\ idleReports' = IF ok THEN idleReports ELSE Reported(idleReports, t, FALSE)
  /\ wpc' = [wpc EXCEPT ![t] = "done"]
  /\ UNCHANGED <<cached, outerClient, innerClient, clientsMade>>
  /\ IdleTaskFrame

IdleTaskNext ==
  \/ \E t \in Tasks : StartIdleTask(t)
  \/ \E t \in Tasks : OuterLock(t)
  \/ \E t \in Tasks : IdleEstablished(t)
  \/ \E t \in Tasks : IdleFails(t)
  \/ \E t \in Tasks : IdleCompleted(t)
  \/ \E t \in Tasks, healthy \in BOOLEAN : FallbackGetConnection(t, healthy)
  \/ \E t \in Tasks : FallbackLock(t)
  \/ \E t \in Tasks, ok \in BOOLEAN : FallbackDone(t, ok)

\* C26: an IDLE task that falls back to a poll finishes, with the INBOX
\* lock of its connection free again.
FallbackFinishes ==
  \A t \in Tasks :
    (wpc[t] = "f_conn") ~> (wpc[t] = "done" /\ lock[outerClient[t]] = <<>>)

\* C35: one IDLE attempt (one run of executeIdleTask) reports at most one
\* failure to handleIdleTaskCompletion, each report adding 1 to the
\* mailbox's idleFailures, whichever way the task ends.
OneFailurePerIdleAttempt ==
  \A t \in Tasks : idleReports[t][2] <= 1

(***************************************************************************)
(* gracefulShutdown (index.ts) and IMAPService.shutdown                    *)
(***************************************************************************)
AppInit ==
  /\ isShuttingDown = FALSE
  /\ shutdownPc = "none"

\* process.exit has not been called
Alive == shutdownPc # "exited"

\* a signal arrives: gracefulShutdown returns at once when a shutdown is
\* under way, else it sets the flag and awaits stopMonitoring()
GracefulShutdown ==
  /\ Alive
  /\ ~isShuttingDown
  /\ isShuttingDown' = TRUE
  /\ shutdownPc' = "stopMonitoring"
  /\ UNCHANGED imapVars
  /\ ShutdownFrame

\* stopMonitoring has resolved and imapService.shutdown() runs up to its
\* await: removeAccount is called for every entry of the clients map (the
\* model has one mailbox, so one removeAccount, run by "remover")
ImapServiceShutdown ==
  /\ shutdownPc = "stopMonitoring"
  /\ pc["remover"] = "idle"
  /\ LET open == {m \in Mailboxes : clients[m] # 0} IN
     IF open = {} THEN UNCHANGED <<pc, cl, box>>
     ELSE RemoveHead("remover", CHOOSE m \in open : TRUE, "idle")
  /\ shutdownPc' = "imapShutdown"
  /\ UNCHANGED <<clients, session, owner, attempt, deadConnections, probed, isShuttingDown>>
  /\ ShutdownFrame

\* Promise.allSettled of the removals has resolved: closeSQS, process.exit
ShutdownExit ==
  /\ shutdownPc = "imapShutdown"
  /\ pc["remover"] = "idle"
  /\ shutdownPc' = "exited"
  /\ UNCHANGED <<imapVars, isShuttingDown>>
  /\ ShutdownFrame

\* the service with its signal handlers: everything goes on until
\* process.exit
ShutdownNext ==
  \/ Alive /\ \E t \in Tasks, m \in Mailboxes : GetConnection(t, m)
  \/ Alive /\ \E t \in Tasks : GetConnectionNoop(t)
  \/ Alive /\ \E p \in Procs : RemoveLogout(p)
  \/ Alive /\ \E p \in Procs : RemoveReturn(p)
  \/ Alive /\ \E t \in Tasks : GetConnectionCreate(t)
  \/ Alive /\ \E t \in Tasks : GetConnectionSet(t)
  \/ Alive /\ \E t \in Tasks : WorkerNoop(t)
  \/ Alive /\ \E t \in Tasks : WorkerConnect(t)
  \/ Alive /\ \E t \in Tasks : WorkerDone(t)
  \/ Alive /\ \E s \in SessionIds : Drop(s)
  \/ GracefulShutdown
  \/ ImapServiceShutdown
  \/ ShutdownExit

\* C20: once gracefulShutdown has set isShuttingDown, no step constructs a
\* new IMAP client.
NoSessionAfterShutdown ==
  [][isShuttingDown
       => \A s \in SessionIds : session[s] = "none" => session'[s] = "none"]_vars

(***************************************************************************)
(* ConnectionManager                                                       *)
(***************************************************************************)
\* account.imapHost, as the fragments String.includes is asked about
imapHost ==
  [a \in Accounts \cup IdleAccounts |->
     CASE a = "a1" -> <<"imap.", "gmail.com">>
       [] a = "a2" -> <<"imap.", "google", "mail.com">>
       [] a = "a4" -> <<"mail.", "mailscale", ".com">>
       [] OTHER    -> <<"mail.example.org">>]

\* priority of the tasks of an account (task.priority passed by the worker)
accountPriority ==
  [a \in Accounts |-> CASE a = "a1" -> "low" [] a = "a2" -> "high" [] OTHER -> "medium"]

Includes(host, part) == \E i \in 1..Len(host) : host[i] = part

\* getServerHost: well-known hosts collapse to one key, others keep theirs
getServerHost(a) ==
  LET host == imapHost[a] IN
  IF Includes(host, "gmail.com") \/ Includes(host, "google") THEN "gmail.com"
  ELSE IF Includes(host, "outlook.com") \/ Includes(host, "office365.com")
    THEN "outlook.office365.com"
  ELSE IF Includes(host, "yahoo.com") THEN "imap.mail.yahoo.com"
  ELSE IF Includes(host, "mailscale") THEN "mailscale.com"
  ELSE host[1]

Hosts == {getServerHost(a) : a \in Accounts}

CmInit ==
  /\ connectionPools = <<>>
  /\ accountConnections = [a \in Accounts |-> "none"]
  /\ connectionQueue = <<>>
  /\ conn = [c \in ConnIds |-> "none"]
  /\ connHost = [c \in ConnIds |-> "none"]
  /\ rpc = [r \in Requests |-> "idle"]
  /\ racct = [r \in Requests |-> "none"]
  /\ cmNow = Epoch
  /\ creations = [h \in Hosts |-> [t \in Epoch..(Epoch + ClockRange) |-> 0]]

\* createConnectionPool
createConnectionPool(t) ==
  [maxConnections |-> maxConnectionsPerServer,
   currentConnections |-> 0,
   connections |-> [a \in Accounts |-> 0],
   lastConnectionTime |-> t,
   rateLimitWindow |-> t,
   rateLimitCount |-> 0,
   maxRateLimit |-> maxRateLimit]

\* isConnectionHealthy: connection && !destroyed && connected
isConnectionHealthy(c) == c # 0 /\ conn[c] = "connected"

\* canCreateConnection: its result
canCreateConnection(P, h, t) ==
  IF h \notin DOMAIN P THEN TRUE
  ELSE IF P[h].currentConnections >= P[h].maxConnections THEN FALSE
  ELSE IF t - P[h].lastConnectionTime < P[h].rateLimitWindow
    THEN P[h].rateLimitCount < P[h].maxRateLimit
  ELSE TRUE

\* canCreateConnection: the pools after its "reset rate limit window" branch
AfterAdmission(P, h, t) ==
  IF /\ h \in DOMAIN P
     /\ P[h].currentConnections < P[h].maxConnections
     /\ ~(t - P[h].lastConnectionTime < P[h].rateLimitWindow)
    THEN [P EXCEPT ![h].rateLimitWindow = t, ![h].rateLimitCount = 0]
    ELSE P

\* createConnection up to its await: get or create the pool of the host
PoolEnsured(P, h, t) ==
  IF h \in DOMAIN P THEN P ELSE P @@ (h :> createConnectionPool(t))

priorityWeight(p) == CASE p = "high" -> 3 [] p = "medium" -> 2 [] OTHER -> 1

WithPriority(q, p) == SelectSeq(q, LAMBDA e : e.priority = p)

sortLowFirst(q) ==
  WithPriority(q, "low") \o WithPriority(q, "medium") \o WithPriority(q, "high")

\* sortConnectionQueue: stable sort by descending priority weight
sortConnectionQueue(q) ==
  WithPriority(q, "high") \o WithPriority(q, "medium") \o WithPriority(q, "low")

\* processConnectionQueue: admits requests from the head of the queue
\* while the head's host admits one; each admitted request starts its
\* createConnection
RECURSIVE processConnectionQueue(_, _, _, _)
processConnectionQueue(P, q, started, t) ==
  IF q = <<>> THEN [pools |-> P, queue |-> q, started |-> started]
  ELSE LET h == getServerHost(q[1].accountId) IN
       IF canCreateConnection(P, h, t)
         THEN processConnectionQueue(PoolEnsured(AfterAdmission(P, h, t), h, t),
                                     Tail(q), started \cup {q[1].req}, t)
         ELSE [pools |-> P, queue |-> q, started |-> started]

\* the pools after getExistingConnection dropped an unhealthy entry
AfterExisting(P, a, h) ==
  IF h \in DOMAIN P /\ P[h].connections[a] # 0 /\ ~isConnectionHealthy(P[h].connections[a])
    THEN [P EXCEPT ![h].connections[a] = 0,
                   ![h].currentConnections = P[h].currentConnections - 1]
    ELSE P

\* getConnection(accountId, account, priority): an existing healthy
\* connection is returned; else the request is admitted and starts creating
\* or is parked in the queue
CmGetConnection(r, a) ==
  /\ rpc[r] = "idle"
  /\ LET h == getServerHost(a)
         P1 == AfterExisting(connectionPools, a, h) IN
     IF h \in DOMAIN connectionPools /\ isConnectionHealthy(connectionPools[h].connections[a])
       THEN UNCHANGED cmVars
     ELSE IF canCreateConnection(P1, h, cmNow)
       THEN /\ connectionPools' = PoolEnsured(AfterAdmission(P1, h, cmNow), h, cmNow)
            /\ rpc' = [rpc EXCEPT ![r] = "creating"]
            /\ racct' = [racct EXCEPT ![r] = a]
            /\ UNCHANGED connectionQueue
       ELSE /\ connectionPools' = P1
            /\ connectionQueue' = sortConnectionQueue(
                 Append(connectionQueue, [req |-> r, accountId |-> a, priority |-> accountPriority[a]]))
            /\ rpc' = [rpc EXCEPT ![r] = "queued"]
            /\ racct' = [racct EXCEPT ![r] = a]
  /\ UNCHANGED <<accountConnections, conn, connHost, cmNow, creations>>
  /\ CmFrame

FreeConns(cap) == {c \in 1..cap : conn[c] = "none"}

\* createConnection after await createImapClient: the pool counters are
\* updated, the connection is stored and the queue is processed
CreateDone(r, cap) ==
  /\ FreeConns(cap) # {}
  /\ LET a == racct[r]
         h == getServerHost(a)
         c == CHOOSE x \in FreeConns(cap) : \A y \in FreeConns(cap) : x <= y
         P1 == [connectionPools EXCEPT
                  ![h].currentConnections = connectionPools[h].currentConnections + 1,
                  ![h].connections[a] = c,
                  ![h].lastConnectionTime = cmNow,
                  ![h].rateLimitCount = connectionPools[h].rateLimitCount + 1]
         res == processConnectionQueue(P1, connectionQueue, {}, cmNow) IN
     /\ conn' = [conn EXCEPT ![c] = "connected"]
     /\ connHost' = [connHost EXCEPT ![c] = h]
     /\ creations' = [creations EXCEPT ![h][cmNow] = creations[h][cmNow] + 1]
     /\ accountConnections' = [accountConnections EXCEPT ![a] = h]
     /\ connectionPools' = res.pools
     /\ connectionQueue' = res.queue
     /\ rpc' = [x \in Requests |->
                  IF x = r THEN "idle" ELSE IF x \in res.started THEN "creating" ELSE rpc[x]]
     /\ racct' = [racct EXCEPT ![r] = "none"]
  /\ UNCHANGED cmNow
  /\ CmFrame

CmCreateDone(r) ==
  /\ rpc[r] = "creating"
  /\ CreateDone(r, MaxConns)

\* the state change of releaseConnection(accountId)
Released(a) ==
  LET h == accountConnections[a] IN
  IF h = "none" \/ h \notin DOMAIN connectionPools \/ connectionPools[h].connections[a] = 0
    THEN UNCHANGED <<connectionPools, accountConnections, connectionQueue, conn, rpc>>
    ELSE LET c == connectionPools[h].connections[a]
             P1 == [connectionPools EXCEPT
                      ![h].connections[a] = 0,
                      ![h].currentConnections = connectionPools[h].currentConnections - 1]
             res == processConnectionQueue(P1, connectionQueue, {}, cmNow) IN
         /\ conn' = [conn EXCEPT ![c] = "disconnected"]
         /\ accountConnections' = [accountConnections EXCEPT ![a] = "none"]
         /\ connectionPools' = res.pools
         /\ connectionQueue' = res.queue
         /\ rpc' = [x \in Requests |-> IF x \in res.started THEN "creating" ELSE rpc[x]]

\* releaseConnection(accountId) called by the holder of the connection
CmReleaseConnection(a) ==
  /\ accountConnections[a] # "none"
  /\ Released(a)
  /\ UNCHANGED <<connHost, racct, cmNow, creations>>
  /\ CmFrame

\* performHealthCheck, one connection of one pool: an unhealthy connection
\* is released
CmHealthCheck(a) ==
  /\ \E h \in DOMAIN connectionPools : connectionPools[h].connections[a] # 0
  /\ LET h == CHOOSE x \in DOMAIN connectionPools : connectionPools[x].connections[a] # 0 IN
     IF isConnectionHealthy(connectionPools[h].connections[a])
       THEN UNCHANGED <<connectionPools, accountConnections, connectionQueue, conn, rpc>>
       ELSE Released(a)
  /\ UNCHANGED <<connHost, racct, cmNow, creations>>
  /\ CmFrame

\* time passes
CmTick ==
  /\ cmNow < Epoch + ClockRange
  /\ cmNow' = cmNow + 1
  /\ UNCHANGED <<connectionPools, accountConnections, connectionQueue, conn, connHost,
                 rpc, racct, creations>>
  /\ CmFrame

CmNext ==
  \/ \E r \in Requests, a \in Accounts : CmGetConnection(r, a)
  \/ \E r \in Requests : CmCreateDone(r)
  \/ \E a \in Accounts : CmReleaseConnection(a)
  \/ \E a \in Accounts : CmHealthCheck(a)
  \/ CmTick

\* the connection manager serving QueueRequests with QueueConns sessions
CmQueueCreateDone(r) ==
  /\ rpc[r] = "creating"
  /\ CreateDone(r, QueueConns)

CmQueueNext ==
  \/ \E r \in QueueRequests, a \in Accounts : CmGetConnection(r, a)
  \/ \E r \in QueueRequests : CmQueueCreateDone(r)
  \/ \E a \in Accounts : CmReleaseConnection(a)
  \/ \E a \in Accounts : CmHealthCheck(a)
  \/ CmTick

(***************************************************************************)
(* Claims about ConnectionManager                                          *)
(***************************************************************************)
LiveOnHost(h) == {c \in ConnIds : conn[c] = "connected" /\ connHost[c] = h}

\* C3: for every host group the number of live sessions never exceeds the
\* pool's maxConnections, also when several requests pass the admission
\* check before any of them has finished creating its session.
HostCapacityRespected ==
  \A h \in Hosts : Cardinality(LiveOnHost(h)) <= maxConnectionsPerServer

RECURSIVE SumFrom(_, _, _)
SumFrom(f, lo, hi) == IF lo > hi THEN 0 ELSE f[lo] + SumFrom(f, lo + 1, hi)

Min(x, y) == IF x <= y THEN x ELSE y

\* the accounts with an entry in pool.connections
Entries(h) == {a \in Accounts : connectionPools[h].connections[a] # 0}

\* C37: for every host pool, currentConnections equals the number of
\* entries of pool.connections.
CountMatchesEntries ==
  \A h \in DOMAIN connectionPools :
    connectionPools[h].currentConnections = Cardinality(Entries(h))

\* C4: for every host group the number of sessions created within any
\* rolling window of rateLimitWindow time units never exceeds maxRateLimit.
RateLimitRespected ==
  \A h \in Hosts : \A t \in Epoch..(Epoch + ClockRange) :
    SumFrom(creations[h], t, Min(t + rateLimitWindow - 1, Epoch + ClockRange)) <= maxRateLimit

Parked(q) == {q[i].req : i \in 1..Len(q)}

Pos(q, r) == CHOOSE i \in 1..Len(q) : q[i].req = r

Weight(q, r) == priorityWeight(q[Pos(q, r)].priority)

ParkedEventuallyGranted ==
  \A r \in QueueRequests :
    []<>~(/\ rpc[r] = "queued"
          /\ canCreateConnection(connectionPools, getServerHost(racct[r]), cmNow))


(***************************************************************************)
(* ImapWorker: poll task and IDLE notification of one mailbox              *)
(***************************************************************************)
SeqNos == 1..MaxExists

PollInit ==
  /\ exists \in 0..MaxExists
  /\ kind \in {k \in [SeqNos -> {"ok", "noid", "bad"}] :
                 Cardinality({i \in SeqNos : k[i] # "ok"}) <= MaxOdd}
  /\ runPc = "idle"
  /\ runKind = "poll"
  /\ runStart = 0
  /\ runEnd = 0
  /\ cursor = 0
  /\ messages = <<>>
  /\ fetched = {}
  /\ unfetched = {}
  /\ skipped = {}
  /\ handed = {}
  /\ rejected = {}
  /\ sink = <<>>
  /\ lastOutcome = "none"
  /\ lastUpdate = 0
  /\ okExists = 0
  /\ runs = 0

\* parseEmail: the fields the required-fields check looks at.  The
\* Message-ID is the one of the envelope or '' (no envelope, no header);
\* the internal id is always built from account, uid and wall time.
parseEmail(i) ==
  [seq |-> i,
   messageId |-> IF kind[i] = "ok" THEN "<message-id>" ELSE "",
   internalMessageId |-> "acct_uid_now"]

\* parseEmail or the payload construction throws (e.g. invalid date)
ParseThrows(i) == kind[i] = "bad"

\* the required-fields check with "and" in place of "or"
SkipEmailBothMissing(e) == e.messageId = "" /\ e.internalMessageId = ""

\* if (!emailData.messageId || !emailData.internalMessageId) continue
SkipEmail(e) == e.messageId = "" \/ e.internalMessageId = ""

\* getLastProcessedCount: placeholder, returns 0
getLastProcessedCount == 0

\* updateLastProcessedCount: placeholder, stores nothing; the model keeps
\* the argument of the call
updateLastProcessedCount(count) == lastUpdate' = count

\* messages pushed by the loop over one fetched batch lo..hi
RECURSIVE Pushed(_, _, _)
Pushed(msgs, lo, hi) ==
  IF lo > hi THEN msgs
  ELSE IF ParseThrows(lo) \/ SkipEmail(parseEmail(lo)) THEN Pushed(msgs, lo + 1, hi)
  ELSE Pushed(Append(msgs, lo), lo + 1, hi)

StartRun(k, from, to) ==
  /\ runPc' = "fetch"
  /\ runKind' = k
  /\ runStart' = from
  /\ runEnd' = to
  /\ cursor' = from
  /\ messages' = <<>>
  /\ fetched' = {}
  /\ unfetched' = {}
  /\ skipped' = {}
  /\ handed' = {}
  /\ rejected' = {}
  /\ runs' = runs + 1

\* the run ends; a poll reports its outcome
EndRun(outcome) ==
  /\ runPc' = "idle"
  /\ lastOutcome' = IF runKind = "poll" THEN outcome ELSE lastOutcome
  /\ okExists' = IF runKind = "poll" /\ outcome = "ok" THEN runEnd ELSE okExists
  /\ IF runKind = "poll" /\ outcome = "ok"
       THEN updateLastProcessedCount(runEnd)
       ELSE UNCHANGED lastUpdate

\* executePollTask: mailboxOpen gives EXISTS, the watermark is read, and new
\* messages are processed if EXISTS is above it
PollStart ==
  /\ runPc = "idle"
  /\ runs < MaxRuns
  /\ IF exists > getLastProcessedCount
       THEN /\ StartRun("poll", getLastProcessedCount + 1, exists)
            /\ UNCHANGED <<lastOutcome, lastUpdate, okExists>>
       ELSE /\ runs' = runs + 1
            /\ lastOutcome' = "ok"
            /\ UNCHANGED <<runPc, runKind, runStart, runEnd, cursor, messages, fetched,
                           unfetched, skipped, handed, rejected, lastUpdate, okExists>>
  /\ UNCHANGED <<exists, kind, sink>>
  /\ PollFrame

\* executeIdleTask, connection.on('exists'): the handler processes the
\* message with the announced count
IdleNotify ==
  /\ runPc = "idle"
  /\ runs < MaxRuns
  /\ exists > 0
  /\ StartRun("idle", exists, exists)
  /\ UNCHANGED <<exists, kind, sink, lastOutcome, lastUpdate, okExists>>
  /\ PollFrame

\* new mail arrives on the server
NewMail ==
  /\ exists < MaxExists
  /\ exists' = exists + 1
  /\ UNCHANGED <<kind, runPc, runKind, runStart, runEnd, cursor, messages, fetched,
                 unfetched, skipped, handed, rejected, sink, lastOutcome, lastUpdate,
                 okExists, runs>>
  /\ PollFrame

BatchEnd == IF cursor + batchSize - 1 <= runEnd THEN cursor + batchSize - 1 ELSE runEnd

\* one iteration of the fetch loop: the batch is fetched and parsed, or the
\* FETCH fails and the loop continues with the next batch
FetchBatch ==
  /\ runPc = "fetch"
  /\ cursor <= runEnd
  /\ \/ /\ messages' = Pushed(messages, cursor, BatchEnd)
        /\ fetched' = fetched \cup (cursor..BatchEnd)
        /\ skipped' = skipped \cup
             {i \in cursor..BatchEnd : ~ParseThrows(i) /\ SkipEmail(parseEmail(i))}
        /\ UNCHANGED unfetched
     \/ /\ unfetched' = unfetched \cup (cursor..BatchEnd)
        /\ UNCHANGED <<messages, fetched, skipped>>
  /\ cursor' = cursor + batchSize
  /\ UNCHANGED <<exists, kind, runPc, runKind, runStart, runEnd, handed, rejected, sink,
                 lastOutcome, lastUpdate, okExists, runs>>
  /\ PollFrame

\* the fetch loop is over: the messages go to the sink, or there are none
FetchDone ==
  /\ runPc = "fetch"
  /\ cursor > runEnd
  /\ IF messages # <<>>
       THEN /\ runPc' = "send"
            /\ UNCHANGED <<lastOutcome, lastUpdate, okExists>>
       ELSE EndRun("ok")
  /\ UNCHANGED <<exists, kind, runKind, runStart, runEnd, cursor, messages, fetched,
                 unfetched, skipped, handed, rejected, sink, runs>>
  /\ PollFrame

Range(q) == {q[i] : i \in 1..Len(q)}

Chunk == SubSeq(messages, 1, IF Len(messages) <= sinkBatch THEN Len(messages) ELSE sinkBatch)

Rest == SubSeq(messages, Len(Chunk) + 1, Len(messages))

\* await sendMessageBatch(batch): the sink accepts all entries, or reports
\* some as Failed (which is only logged), or accepts none / the call throws
\* and the run fails
SendBatch ==
  /\ runPc = "send"
  /\ messages # <<>>
  /\ handed' = handed \cup Range(Chunk)
  /\ \/ \E bad \in SUBSET Range(Chunk) :
          /\ Cardinality(bad) <= MaxRejected
          /\ bad # Range(Chunk)
          /\ sink' = sink \o SelectSeq(Chunk, LAMBDA x : x \notin bad)
          /\ rejected' = rejected \cup bad
          /\ messages' = Rest
          /\ IF Rest = <<>>
               THEN EndRun("ok")
               ELSE UNCHANGED <<runPc, lastOutcome, lastUpdate, okExists>>
     \/ /\ EndRun("failed")
        /\ rejected' = rejected \cup Range(Chunk)
        /\ UNCHANGED <<sink, messages>>
  /\ UNCHANGED <<exists, kind, runKind, runStart, runEnd, cursor, fetched, unfetched,
                 skipped, runs>>
  /\ PollFrame

PollNext ==
  \/ PollStart
  \/ IdleNotify
  \/ NewMail
  \/ FetchBatch
  \/ FetchDone
  \/ SendBatch

(***************************************************************************)
(* Claims about ImapWorker                                                 *)
(***************************************************************************)
\* C5: over all polls and IDLE notifications the sequence numbers of the
\* envelopes submitted to the sink are strictly increasing.
SinkStrictlyIncreasing ==
  \A i, j \in 1..Len(sink) : i < j => sink[i] < sink[j]

\* C6: a poll ends successfully (and advances the watermark to EXISTS) only
\* if every batch of the range was fetched and the sink rejected no entry.
AdvanceOnlyAfterFullSubmission ==
  (runPc = "idle" /\ runKind = "poll" /\ lastOutcome = "ok" /\ lastUpdate = runEnd
     /\ runEnd > 0)
    => (unfetched = {} /\ rejected = {})

\* C7: after a successful poll that saw EXISTS = E the watermark is E, so a
\* following poll with unchanged EXISTS has no range to process.
NoWorkAfterSuccessfulPoll ==
  (runPc # "idle" /\ runKind = "poll" /\ okExists > 0) => runEnd # okExists


MaxTime == SchedStart + Horizon

FleetMaxTime == SchedStart + FleetHorizon

\* baseIntervals: 60000, 300000, 900000 ms
baseIntervals == [high |-> 2, medium |-> 10, low |-> 30]

\* adaptiveIntervals: 60000, 300000, 900000 ms
adaptiveIntervals == [high |-> 2, medium |-> 10, low |-> 30]

\* const idleRetryInterval = 300000
idleRetryInterval == 10
\* const nextIdleDelay = 60000
nextIdleDelay == 2
\* IDLE disabled: new Date(Date.now() + 30000)
idleFallbackDelay == 1
\* retryDelay = min(60000 * 2^idleFailures, 300000)
idleBackoffBase == 2
\* Math.min(schedule.interval * 2, 3600000), in units of 30 s
maxQuarantineInterval == 120
\* the cap of the backoff after a failed executePoll: 300000 ms
pollBackoffMax == 10

idleBackoffMax == 10
maxIdleFailures == 3
\* maxRetries: 2 of the tasks the scheduler adds
taskMaxRetries == 2
\* emailCount arguments of updateAccountVolume
VolumeReports == {10, 11, 100, 101}
\* cap of the failStreak history
StreakCap == 3
\* cap of the idleFailures counter
IdleFailureCap == 4

\* ids of the tasks a behaviour can add: two for each instant
TaskIds == 1..(2 * (FleetHorizon + 1))

WorkerIds == {WorkerOrder[i] : i \in 1..Len(WorkerOrder)}

Max(x, y) == IF x >= y THEN x ELSE y

RECURSIVE Pow2(_)
Pow2(n) == IF n = 0 THEN 1 ELSE 2 * Pow2(n - 1)

\* the scheduler and the pool after construction, with the worker registry W
SchedInitWith(W) ==
  /\ now = SchedStart
  /\ schedules = <<>>
  /\ scheduleOrder = <<>>
  /\ pollingTimers = <<>>
  /\ taskQueue = <<>>
  /\ workers = [w \in W |-> [status |-> "idle", currentTask |-> <<>>]]
  /\ activeWorkers = 0
  /\ retryTimers = {}
  /\ tasksAdded = 0
  /\ lastAdded = "none"
  /\ skippedOverdue = {}
  /\ failStreak = [a \in Scheduled \cup IdleAccounts |-> 0]
  /\ detached = {}
  /\ executions = [id \in TaskIds |-> 0]

\* the constructor of WorkerPool leaves the registry empty, and no code of
\* the pool adds to it
SchedInit == SchedInitWith({})

\* a pool with registered workers, for the executeTask path
FleetInit == SchedInitWith(WorkerIds)

IncludesParts(host, parts) ==
  \E i \in 1..(Len(host) - Len(parts) + 1) : SubSeq(host, i, i + Len(parts) - 1) = parts

\* detectIdleSupport: FALSE for the known non-IDLE providers, TRUE for the
\* known IDLE providers and for unknown ones
detectIdleSupport(a) ==
  LET host == imapHost[a] IN
  IF \/ IncludesParts(host, <<"mailscale", ".com">>)
     \/ Includes(host, "shared-hosting.com")
     \/ Includes(host, "cpanel.com")
    THEN FALSE
    ELSE TRUE

Without(f, a) == [x \in DOMAIN f \ {a} |-> f[x]]

With(f, a, v) == [x \in DOMAIN f \cup {a} |-> IF x = a THEN v ELSE f[x]]

\* the guard without the isActive test
NoSchedule(S, a) == a \notin DOMAIN S

\* if (!schedule || !schedule.isActive) return
NotPollable(S, a) == a \notin DOMAIN S \/ ~S[a].isActive

\* scheduleNextPoll: (re)arms the timer of an active schedule for nextPoll
scheduleNextPoll(S, T, a) ==
  IF NotPollable(S, a) THEN T
  ELSE With(T, a, [due |-> Max(now, S[a].nextPoll), fired |-> FALSE])

\* clearTimeout and pollingTimers.delete
clearTimer(T, a) == IF a \in DOMAIN T THEN Without(T, a) ELSE T

getPriorityWeight(p) ==
  CASE p = "high" -> 3 [] p = "medium" -> 2 [] p = "low" -> 1 [] OTHER -> 0

\* findIndex of the first queued task of lower weight; 0 when there is none
insertIndex(q, task) ==
  LET lower == {i \in 1..Len(q) :
                  getPriorityWeight(q[i].priority) < getPriorityWeight(task.priority)}
  IN IF lower = {} THEN 0 ELSE CHOOSE i \in lower : \A j \in lower : i <= j

Enqueued(q, task) ==
  LET k == insertIndex(q, task) IN
  IF k = 0 THEN Append(q, task)
  ELSE SubSeq(q, 1, k - 1) \o <<task>> \o SubSeq(q, k, Len(q))

\* findAvailableWorker: the first idle worker of the registry
findAvailableWorker(W) ==
  LET idle == {i \in 1..Len(WorkerOrder) :
                 WorkerOrder[i] \in DOMAIN W /\ W[WorkerOrder[i]].status = "idle"}
  IN IF idle = {} THEN "none"
     ELSE WorkerOrder[CHOOSE i \in idle : \A j \in idle : i <= j]

\* processNextTask, with the synchronous start of executeTask
processNextTask(q, W, act) ==
  IF q = <<>> \/ act >= maxWorkers THEN [queue |-> q, workers |-> W, active |-> act]
  ELSE LET w == findAvailableWorker(W) IN
       IF w = "none" THEN [queue |-> q, workers |-> W, active |-> act]
       ELSE [queue |-> Tail(q),
             workers |-> [W EXCEPT ![w] = [status |-> "busy", currentTask |-> <<Head(q)>>]],
             active |-> act + 1]

\* addTask: priority insert, then processNextTask.  st holds the pool
\* (queue, workers, active) and the count and mailbox of the addTask calls
addTask(st, a, priority, type) ==
  LET task == [id |-> st.n + 1, accountId |-> a, priority |-> priority, type |-> type,
               retryCount |-> 0, maxRetries |-> taskMaxRetries]
      r == processNextTask(Enqueued(st.queue, task), st.workers, st.active)
  IN [st EXCEPT !.queue = r.queue, !.workers = r.workers, !.active = r.active,
                !.n = st.n + 1, !.last = a]

\* the task type executePoll chooses
taskTypeOf(sch) ==
  IF sch.idleEnabled /\ sch.supportsIdle /\ now - sch.lastIdleAttempt > idleRetryInterval
    THEN "idle" ELSE "poll"

Min10(x) == IF x <= 10 THEN x ELSE 10

\* executePoll: nothing for a missing or inactive schedule; else the task is
\* added; an IDLE task leaves the schedule alone but for lastIdleAttempt, a
\* poll task is booked as a success at once.  addTask does not throw, so
\* the catch block is not entered.
executePoll(st, a) ==
  IF NotPollable(st.S, a) THEN st
  ELSE LET type == taskTypeOf(st.S[a])
           S1 == IF type = "idle"
                   THEN [st.S EXCEPT ![a].lastIdleAttempt = now]
                   ELSE [st.S EXCEPT ![a].lastPolled = now,
                                     ![a].nextPoll = now + st.S[a].interval,
                                     ![a].consecutiveFailures = 0,
                                     ![a].successRate = Min10(st.S[a].successRate + 1)]
           st1 == addTask(st, a, st.S[a].priority, type)
       IN [st1 EXCEPT !.S = S1,
                      !.T = IF type = "idle" THEN st.T ELSE scheduleNextPoll(S1, st.T, a)]

\* tasks queued, running or waiting for a retry
Outstanding == Len(taskQueue) + activeWorkers + Cardinality(retryTimers)

Current ==
  [S |-> schedules, T |-> pollingTimers, queue |-> taskQueue, workers |-> workers,
   active |-> activeWorkers, n |-> tasksAdded, last |-> lastAdded]

\* the executions after the pool went to the workers W2: a task that is
\* the current task of a worker and was not before has been started
Counted(W2) ==
  [id \in TaskIds |->
     IF \E w \in DOMAIN W2 : /\ W2[w].currentTask # <<>>
                             /\ W2[w].currentTask # workers[w].currentTask
                             /\ W2[w].currentTask[1].id = id
       THEN executions[id] + 1 ELSE executions[id]]

Set(st) ==
  /\ executions' = Counted(st.workers)
  /\ schedules' = st.S
  /\ pollingTimers' = st.T
  /\ taskQueue' = st.queue
  /\ workers' = st.workers
  /\ activeWorkers' = st.active
  /\ tasksAdded' = st.n
  /\ lastAdded' = st.last

SetPool(r) ==
  /\ executions' = Counted(r.workers)
  /\ taskQueue' = r.queue
  /\ workers' = r.workers
  /\ activeWorkers' = r.active

\* schedules.delete / schedules.set keep the insertion order of the Map
Removed(order, a) == SelectSeq(order, LAMBDA x : x # a)

\* the part of the scheduler its account methods work on
Sched == [S |-> schedules, T |-> pollingTimers, O |-> scheduleOrder]

SetSched(x) ==
  /\ schedules' = x.S
  /\ pollingTimers' = x.T
  /\ scheduleOrder' = x.O

\* PollingScheduler.addAccount(account, priority)
addAccount(x, a, priority) ==
  LET supportsIdle == detectIdleSupport(a)
      sch == [priority |-> priority,
              interval |-> baseIntervals[priority],
              lastPolled |-> 0,
              nextPoll |-> now + baseIntervals[priority],
              emailVolume |-> "low",
              successRate |-> 10,
              consecutiveFailures |-> 0,
              maxFailures |-> 3,
              isActive |-> TRUE,
              supportsIdle |-> supportsIdle,
              idleEnabled |-> supportsIdle,
              lastIdleAttempt |-> 0,
              idleFailures |-> 0]
      S1 == With(x.S, a, sch)
  IN [S |-> S1,
      T |-> scheduleNextPoll(S1, clearTimer(x.T, a), a),
      O |-> Append(Removed(x.O, a), a)]

\* PollingScheduler.removeAccount(accountId)
removeAccount(x, a) ==
  [S |-> Without(x.S, a), T |-> clearTimer(x.T, a), O |-> Removed(x.O, a)]

\* PollingScheduler.pauseAccount(accountId)
pauseAccount(x, a) ==
  IF a \notin DOMAIN x.S THEN x
  ELSE [x EXCEPT !.S = [x.S EXCEPT ![a].isActive = FALSE], !.T = clearTimer(x.T, a)]

\* PollingScheduler.resumeAccount(accountId)
resumeAccount(x, a) ==
  IF a \notin DOMAIN x.S THEN x
  ELSE LET S1 == [x.S EXCEPT ![a].isActive = TRUE,
                             ![a].nextPoll = now + x.S[a].interval]
       IN [x EXCEPT !.S = S1, !.T = scheduleNextPoll(S1, x.T, a)]

\* PollingScheduler.updateAccountPriority(accountId, newPriority)
updateAccountPriority(x, a, newPriority) ==
  IF a \notin DOMAIN x.S THEN x
  ELSE LET S1 == [x.S EXCEPT ![a].priority = newPriority,
                             ![a].interval = baseIntervals[newPriority],
                             ![a].nextPoll = now + baseIntervals[newPriority]]
       IN [x EXCEPT !.S = S1, !.T = scheduleNextPoll(S1, x.T, a)]

volumeOf(emailCount) ==
  IF emailCount > 100 THEN "high" ELSE IF emailCount > 10 THEN "medium" ELSE "low"

\* PollingScheduler.updateAccountVolume(accountId, emailCount)
updateAccountVolume(x, a, emailCount) ==
  IF a \notin DOMAIN x.S \/ volumeOf(emailCount) = x.S[a].emailVolume THEN x
  ELSE LET newInterval == adaptiveIntervals[volumeOf(emailCount)]
           timeUntilNext == x.S[a].nextPoll - now
           S1 == [x.S EXCEPT ![a].emailVolume = volumeOf(emailCount),
                             ![a].interval = newInterval]
           S2 == [S1 EXCEPT ![a].nextPoll =
                    now + (IF timeUntilNext <= newInterval THEN timeUntilNext ELSE newInterval)]
       IN IF timeUntilNext > 0
            THEN [x EXCEPT !.S = S2, !.T = scheduleNextPoll(S2, x.T, a)]
            ELSE [x EXCEPT !.S = S1]

AddAccount(a, priority) ==
  /\ SetSched(addAccount(Sched, a, priority))
  /\ UNCHANGED <<now, taskQueue, workers, activeWorkers, retryTimers, tasksAdded,
                 lastAdded, skippedOverdue, failStreak>>
  /\ UNCHANGED <<detached, executions>>
  /\ SchedFrame

SchedRemoveAccount(a) ==
  /\ a \in DOMAIN schedules
  /\ SetSched(removeAccount(Sched, a))
  /\ UNCHANGED <<now, taskQueue, workers, activeWorkers, retryTimers, tasksAdded,
                 lastAdded, skippedOverdue, failStreak>>
  /\ UNCHANGED <<detached, executions>>
  /\ SchedFrame

PauseAccount(a) ==
  /\ a \in DOMAIN schedules
  /\ SetSched(pauseAccount(Sched, a))
  /\ UNCHANGED <<now, taskQueue, workers, activeWorkers, retryTimers, tasksAdded,
                 lastAdded, skippedOverdue, failStreak>>
  /\ UNCHANGED <<detached, executions>>
  /\ SchedFrame

ResumeAccount(a) ==
  /\ a \in DOMAIN schedules
  /\ SetSched(resumeAccount(Sched, a))
  /\ UNCHANGED <<now, taskQueue, workers, activeWorkers, retryTimers, tasksAdded,
                 lastAdded, skippedOverdue, failStreak>>
  /\ UNCHANGED <<detached, executions>>
  /\ SchedFrame

UpdateAccountPriority(a, newPriority) ==
  /\ a \in DOMAIN schedules
  /\ SetSched(updateAccountPriority(Sched, a, newPriority))
  /\ UNCHANGED <<now, taskQueue, workers, activeWorkers, retryTimers, tasksAdded,
                 lastAdded, skippedOverdue, failStreak>>
  /\ UNCHANGED <<detached, executions>>
  /\ SchedFrame

UpdateAccountVolume(a, emailCount) ==
  /\ a \in DOMAIN schedules
  /\ volumeOf(emailCount) # schedules[a].emailVolume
  /\ SetSched(updateAccountVolume(Sched, a, emailCount))
  /\ UNCHANGED <<now, taskQueue, workers, activeWorkers, retryTimers, tasksAdded,
                 lastAdded, skippedOverdue, failStreak>>
  /\ UNCHANGED <<detached, executions>>
  /\ SchedFrame

\* the setTimeout callback of scheduleNextPoll: executePoll(accountId)
TimerFire(a) ==
  /\ a \in DOMAIN pollingTimers
  /\ ~pollingTimers[a].fired
  /\ pollingTimers[a].due <= now
  /\ Outstanding < MaxTasks
  /\ Set(executePoll([Current EXCEPT !.T = [pollingTimers EXCEPT ![a].fired = TRUE]], a))
  /\ UNCHANGED <<now, scheduleOrder, retryTimers, skippedOverdue, failStreak>>
  /\ UNCHANGED detached
  /\ SchedFrame

\* the loop of processSchedules over the Map, from entry i on: inactive
\* schedules are passed over, overdue ones are polled
RECURSIVE processFrom(_, _)
processFrom(st, i) ==
  IF i > Len(scheduleOrder) THEN st
  ELSE LET a == scheduleOrder[i] IN
       IF ~st.S[a].isActive THEN processFrom(st, i + 1)
       ELSE IF st.S[a].nextPoll <= now THEN processFrom(executePoll(st, a), i + 1)
       ELSE processFrom(st, i + 1)

\* the 10 s tick
ProcessSchedules ==
  /\ Cardinality(DOMAIN schedules) > 0
  /\ Outstanding + Cardinality(DOMAIN schedules) <= MaxTasks
  /\ Set(processFrom(Current, 1))
  /\ skippedOverdue' = {a \in DOMAIN schedules :
                          ~schedules[a].isActive /\ schedules[a].nextPoll <= now}
  /\ UNCHANGED <<now, scheduleOrder, retryTimers, failStreak>>
  /\ UNCHANGED detached
  /\ SchedFrame

\* handleIdleTaskCompletion, called by the worker that ran the IDLE task
HandleIdleTaskCompletion(a, success) ==
  /\ a \in DOMAIN schedules
  /\ success \/ schedules[a].idleFailures < IdleFailureCap
  /\ LET sch == schedules[a]
         failures == sch.idleFailures + 1
         retryDelay == IF idleBackoffBase * Pow2(failures) <= idleBackoffMax
                         THEN idleBackoffBase * Pow2(failures) ELSE idleBackoffMax
         S1 == IF success
                 THEN [schedules EXCEPT ![a].idleFailures = 0,
                                        ![a].idleEnabled = TRUE,
                                        ![a].nextPoll = now + nextIdleDelay]
               ELSE IF failures >= maxIdleFailures
                 THEN [schedules EXCEPT ![a].idleFailures = failures,
                                        ![a].idleEnabled = FALSE,
                                        ![a].nextPoll = now + idleFallbackDelay]
               ELSE [schedules EXCEPT ![a].idleFailures = failures,
                                      ![a].nextPoll = now + retryDelay]
     IN /\ schedules' = S1
        /\ pollingTimers' = scheduleNextPoll(S1, pollingTimers, a)
  /\ UNCHANGED <<now, scheduleOrder, taskQueue, workers, activeWorkers, retryTimers,
                 tasksAdded, lastAdded, skippedOverdue, failStreak>>
  /\ UNCHANGED <<detached, executions>>
  /\ SchedFrame

\* setIdleEnabled: nothing for a missing schedule or a provider without
\* IDLE; enabling resets idleFailures, and enabling what was disabled
\* brings the next poll to now + 30 s
SetIdleEnabled(a, enabled) ==
  /\ a \in DOMAIN schedules
  /\ schedules[a].supportsIdle
  /\ LET oldEnabled == schedules[a].idleEnabled
         S1 == [schedules EXCEPT ![a].idleEnabled = enabled,
                                 ![a].idleFailures = IF enabled THEN 0 ELSE @]
         S2 == [S1 EXCEPT ![a].nextPoll = now + idleFallbackDelay]
     IN IF enabled /\ ~oldEnabled
          THEN /\ schedules' = S2
               /\ pollingTimers' = scheduleNextPoll(S2, pollingTimers, a)
          ELSE /\ schedules' = S1
               /\ UNCHANGED pollingTimers
  /\ UNCHANGED <<now, scheduleOrder, taskQueue, workers, activeWorkers, retryTimers,
                 tasksAdded, lastAdded, skippedOverdue, failStreak>>
  /\ UNCHANGED <<detached, executions>>
  /\ SchedFrame

\* time passes, up to limit; a timer fires when it is due
Pass(limit) ==
  /\ now < limit
  /\ \A a \in DOMAIN pollingTimers :
       pollingTimers[a].fired \/ pollingTimers[a].due > now \/ Outstanding >= MaxTasks
  /\ now' = now + 1
  /\ UNCHANGED <<schedules, scheduleOrder, pollingTimers, taskQueue, workers,
                 activeWorkers, retryTimers, tasksAdded, lastAdded, skippedOverdue,
                 failStreak, detached, executions>>

Advance ==
  /\ Pass(MaxTime)
  /\ SchedFrame

FleetAdvance ==
  /\ Pass(FleetMaxTime)
  /\ SchedFrame

Busy(w) == w \in DOMAIN workers /\ workers[w].status = "busy" /\ workers[w].currentTask # <<>>

Idled(w) == [workers EXCEPT ![w] = [status |-> "idle", currentTask |-> <<>>]]

StreakAfter(task, failedForGood, succeeded) ==
  IF task.type # "poll" THEN failStreak
  ELSE IF succeeded THEN [failStreak EXCEPT ![task.accountId] = 0]
  ELSE IF failedForGood
    THEN [failStreak EXCEPT ![task.accountId] =
            IF @ < StreakCap THEN @ + 1 ELSE StreakCap]
  ELSE failStreak

\* executeTask after executeImapTask resolved: the worker is idle again and
\* the next task is looked for
TaskCompleted(w) ==
  /\ Busy(w)
  /\ SetPool(processNextTask(taskQueue, Idled(w), activeWorkers - 1))
  /\ failStreak' = StreakAfter(workers[w].currentTask[1], FALSE, TRUE)
  /\ UNCHANGED <<now, schedules, scheduleOrder, pollingTimers, retryTimers, tasksAdded,
                 lastAdded, skippedOverdue>>
  /\ UNCHANGED detached
  /\ SchedFrame

\* the retry test with the budget off by one
canRetryOnceMore(task) == task.retryCount <= task.maxRetries

\* if (task.retryCount < task.maxRetries)
canRetry(task) == task.retryCount < task.maxRetries

\* executeTask after executeImapTask threw: the worker is idle again, the
\* task goes to a retry timer while retryCount < maxRetries, and the next
\* task is looked for.  The taskFailed event has no listener.
TaskFailed(w) ==
  /\ Busy(w)
  /\ LET task == workers[w].currentTask[1] IN
     /\ retryTimers' = IF canRetry(task)
                         THEN retryTimers \cup {[task EXCEPT !.retryCount = @ + 1]}
                         ELSE retryTimers
     /\ failStreak' = StreakAfter(task, ~canRetry(task), FALSE)
  /\ SetPool(processNextTask(taskQueue, Idled(w), activeWorkers - 1))
  /\ UNCHANGED <<now, schedules, scheduleOrder, pollingTimers, tasksAdded, lastAdded,
                 skippedOverdue>>
  /\ UNCHANGED detached
  /\ SchedFrame

\* the retry setTimeout fires: taskQueue.unshift(task), processNextTask
RetryFire(id) ==
  /\ \E task \in retryTimers :
       /\ task.id = id
       /\ retryTimers' = retryTimers \ {task}
       /\ SetPool(processNextTask(<<task>> \o taskQueue, workers, activeWorkers))
  /\ UNCHANGED <<now, schedules, scheduleOrder, pollingTimers, tasksAdded, lastAdded,
                 skippedOverdue, failStreak>>
  /\ UNCHANGED detached
  /\ SchedFrame

SchedNext ==
  \/ \E a \in Scheduled, p \in Priorities : AddAccount(a, p)
  \/ \E a \in Scheduled : SchedRemoveAccount(a)
  \/ \E a \in Scheduled : PauseAccount(a)
  \/ \E a \in Scheduled : ResumeAccount(a)
  \/ \E a \in Scheduled, p \in Priorities : UpdateAccountPriority(a, p)
  \/ \E a \in Scheduled, n \in VolumeReports : UpdateAccountVolume(a, n)
  \/ \E a \in Scheduled : TimerFire(a)
  \/ ProcessSchedules
  \/ \E a \in Scheduled, ok \in BOOLEAN : HandleIdleTaskCompletion(a, ok)
  \/ Advance

\* the IDLE bookkeeping of the schedules under addAccount, setIdleEnabled and
\* the outcome reports of IDLE tasks
IdleNext ==
  \/ \E a \in IdleAccounts, p \in Priorities : AddAccount(a, p)
  \/ \E a \in IdleAccounts, on \in BOOLEAN : SetIdleEnabled(a, on)
  \/ \E a \in IdleAccounts, ok \in BOOLEAN : HandleIdleTaskCompletion(a, ok)

\* the scheduler at work on the mailboxes it was given, and the pool
\* running the tasks
\* addTask called by a client of the pool, up to MaxPoolTasks calls
PoolAddTask(a, priority, type) ==
  /\ tasksAdded < MaxPoolTasks
  /\ Set(addTask(Current, a, priority, type))
  /\ UNCHANGED <<now, scheduleOrder, retryTimers, skippedOverdue, failStreak>>
  /\ UNCHANGED detached
  /\ SchedFrame

\* the re-queue of performHealthCheck: if (cur) taskQueue.unshift(cur)
requeue(q, cur) == IF cur # <<>> THEN cur \o q ELSE q

RECURSIVE resetFrom(_, _, _)
\* the loop of performHealthCheck over the registry, from position i: a
\* stuck busy worker becomes idle, its currentTask is cleared, activeWorkers
\* goes down by one, and what is then its currentTask is re-queued
resetFrom(r, stuck, i) ==
  IF i > Len(WorkerOrder) THEN r
  ELSE LET w == WorkerOrder[i] IN
       IF w \in DOMAIN r.workers /\ w \in stuck /\ r.workers[w].status = "busy"
         THEN LET W2 == [r.workers EXCEPT ![w] = [status |-> "idle", currentTask |-> <<>>]]
              IN resetFrom([queue |-> requeue(r.queue, W2[w].currentTask),
                            workers |-> W2, active |-> r.active - 1], stuck, i + 1)
         ELSE resetFrom(r, stuck, i + 1)

\* performHealthCheck when the workers of stuck have been busy for longer
\* than workerTimeout (how long a task has run is an input).  The execution
\* of a reset worker goes on: its promise has not settled.
performHealthCheck(stuck) ==
  /\ stuck # {}
  /\ \A w \in stuck : Busy(w)
  /\ LET r == resetFrom([queue |-> taskQueue, workers |-> workers, active |-> activeWorkers],
                        stuck, 1)
     IN /\ taskQueue' = r.queue
        /\ workers' = r.workers
        /\ activeWorkers' = r.active
  /\ detached' = detached \cup {[worker |-> w, task |-> workers[w].currentTask[1]] : w \in stuck}
  /\ UNCHANGED <<now, schedules, scheduleOrder, pollingTimers, retryTimers, tasksAdded,
                 lastAdded, skippedOverdue, failStreak, executions>>
  /\ SchedFrame

\* the execution a settling promise displaces: executeTask clears the
\* currentTask of its worker, whatever task that is by then
Displaced(w, task) ==
  IF Busy(w) /\ workers[w].currentTask[1] # task
    THEN {[worker |-> w, task |-> workers[w].currentTask[1]]} ELSE {}

\* executeTask after executeImapTask resolved, for an execution whose
\* worker was reset meanwhile
DetachedCompleted(w, id) ==
  /\ \E e \in detached :
       /\ e.worker = w /\ e.task.id = id
       /\ detached' = (detached \ {e}) \cup Displaced(w, e.task)
       /\ failStreak' = StreakAfter(e.task, FALSE, TRUE)
  /\ SetPool(processNextTask(taskQueue, Idled(w), activeWorkers - 1))
  /\ UNCHANGED <<now, schedules, scheduleOrder, pollingTimers, retryTimers, tasksAdded,
                 lastAdded, skippedOverdue>>
  /\ SchedFrame

\* executeTask after executeImapTask threw, for an execution whose worker
\* was reset meanwhile
DetachedFailed(w, id) ==
  /\ \E e \in detached :
       /\ e.worker = w /\ e.task.id = id
       /\ detached' = (detached \ {e}) \cup Displaced(w, e.task)
       /\ retryTimers' = IF canRetry(e.task)
                           THEN retryTimers \cup {[e.task EXCEPT !.retryCount = @ + 1]}
                           ELSE retryTimers
       /\ failStreak' = StreakAfter(e.task, ~canRetry(e.task), FALSE)
  /\ SetPool(processNextTask(taskQueue, Idled(w), activeWorkers - 1))
  /\ UNCHANGED <<now, schedules, scheduleOrder, pollingTimers, tasksAdded, lastAdded,
                 skippedOverdue>>
  /\ SchedFrame

PoolNext ==
  \/ \E a \in Scheduled, p \in Priorities, type \in TaskTypes : PoolAddTask(a, p, type)
  \/ \E w \in WorkerIds : TaskCompleted(w)
  \/ \E w \in WorkerIds : TaskFailed(w)
  \/ \E id \in TaskIds : RetryFire(id)
  \/ \E stuck \in SUBSET WorkerIds : performHealthCheck(stuck)
  \/ \E w \in WorkerIds, id \in TaskIds : DetachedCompleted(w, id)
  \/ \E w \in WorkerIds, id \in TaskIds : DetachedFailed(w, id)

\* handleAccountFailure: the interval doubles (at most 1 hour), the next
\* poll is one interval away, the priority becomes low
handleAccountFailure(S, a) ==
  IF a \notin DOMAIN S THEN S
  ELSE LET doubled == IF S[a].interval * 2 <= maxQuarantineInterval
                        THEN S[a].interval * 2 ELSE maxQuarantineInterval
       IN [S EXCEPT ![a].interval = doubled,
                    ![a].nextPoll = now + doubled,
                    ![a].priority = "low"]

\* the catch block of executePoll
executePollCatch(S, a) ==
  LET S1 == [S EXCEPT ![a].consecutiveFailures = @ + 1,
                      ![a].successRate = IF @ >= 2 THEN @ - 2 ELSE 0]
      S2 == IF S1[a].idleEnabled /\ S1[a].supportsIdle
              THEN [S1 EXCEPT ![a].idleFailures = @ + 1,
                              ![a].idleEnabled = (S1[a].idleFailures + 1 < maxIdleFailures)]
              ELSE S1
      backoffDelay == IF S2[a].interval * Pow2(S2[a].consecutiveFailures) <= pollBackoffMax
                        THEN S2[a].interval * Pow2(S2[a].consecutiveFailures)
                        ELSE pollBackoffMax
  IN IF S2[a].consecutiveFailures >= S2[a].maxFailures
       THEN handleAccountFailure(S2, a)
       ELSE [S2 EXCEPT ![a].nextPoll = now + backoffDelay]

\* the setTimeout callback of scheduleNextPoll when workerPool.addTask
\* throws before it has queued the task: executePoll has chosen the task
\* type, and its catch block books a failure
TimerFireThrows(a) ==
  /\ a \in DOMAIN pollingTimers
  /\ ~pollingTimers[a].fired
  /\ pollingTimers[a].due <= now
  /\ ~NotPollable(schedules, a)
  /\ LET S0 == IF taskTypeOf(schedules[a]) = "idle"
                 THEN [schedules EXCEPT ![a].lastIdleAttempt = now] ELSE schedules
         S1 == executePollCatch(S0, a)
     IN /\ schedules' = S1
        /\ pollingTimers' = scheduleNextPoll(S1, pollingTimers, a)
  /\ UNCHANGED <<now, scheduleOrder, taskQueue, workers, activeWorkers, retryTimers,
                 tasksAdded, lastAdded, skippedOverdue, failStreak>>
  /\ UNCHANGED <<detached, executions>>
  /\ SchedFrame

QuarantineAdvance ==
  /\ Pass(SchedStart + QuarantineHorizon)
  /\ SchedFrame

QuarantineNext ==
  \/ \E a \in Scheduled, p \in Priorities : AddAccount(a, p)
  \/ \E a \in Scheduled : TimerFire(a)
  \/ \E a \in Scheduled : TimerFireThrows(a)
  \/ QuarantineAdvance

\* a scheduler whose IDLE tasks report back, over FleetHorizon time units
IdleRetryNext ==
  \/ \E a \in Scheduled, p \in Priorities : AddAccount(a, p)
  \/ \E a \in Scheduled : TimerFire(a)
  \/ \E a \in Scheduled, ok \in BOOLEAN : HandleIdleTaskCompletion(a, ok)
  \/ FleetAdvance

\* the pool as its constructor leaves it: the registry is empty, so only
\* addTask changes anything
BuiltPoolNext ==
  \E a \in Scheduled, p \in Priorities, type \in TaskTypes : PoolAddTask(a, p, type)

FleetNext ==
  \/ \E a \in Scheduled, p \in Priorities : AddAccount(a, p)
  \/ \E a \in Scheduled : TimerFire(a)
  \/ ProcessSchedules
  \/ FleetAdvance
  \/ \E w \in WorkerIds : TaskCompleted(w)
  \/ \E w \in WorkerIds : TaskFailed(w)
  \/ \E id \in TaskIds : RetryFire(id)

\* WorkerPool.shutdown(): the health interval is cleared and the loop waits
\* for activeWorkers to reach 0, looking once a second
PoolShutdownInit == poolShutdown = "running"

PoolShutdownQuiet == PoolShutdownInit

\* shutdown() up to its first look at activeWorkers
PoolShutdown ==
  /\ poolShutdown = "running"
  /\ poolShutdown' = IF activeWorkers > 0 THEN "waiting" ELSE "completed"
  /\ PoolShutdownFrame

\* the loop of shutdown() looks again and finds no active worker
PoolShutdownWait ==
  /\ poolShutdown = "waiting"
  /\ activeWorkers = 0
  /\ poolShutdown' = "completed"
  /\ PoolShutdownFrame

\* the pool at work while shutdown() is called; no task runs for longer
\* than workerTimeout, so the health check resets no worker
PoolShutdownNext ==
  \/ \E a \in Scheduled, p \in Priorities, type \in TaskTypes : PoolAddTask(a, p, type)
  \/ \E w \in WorkerIds : TaskCompleted(w)
  \/ \E w \in WorkerIds : TaskFailed(w)
  \/ \E id \in TaskIds : RetryFire(id)
  \/ PoolShutdown
  \/ PoolShutdownWait

(***************************************************************************)
(* OrchestratorService: the accounts it holds and their schedules          *)
(***************************************************************************)
\* account.dailyLimit of an added account (0: not set) and the volumes
\* reported to updateAccountVolume
DailyLimits == {0, 101, 1001}
OrchVolumeReports == {10, 11, 101, 1001}

OrchInit ==
  /\ accounts = [a \in Scheduled |-> [present |-> FALSE, isActive |-> FALSE]]
  /\ accountPriorities = [a \in Scheduled |-> "none"]

OrchQuiet == OrchInit

determineAccountPriority(dailyLimit) ==
  IF dailyLimit # 0 /\ dailyLimit > 1000 THEN "high"
  ELSE IF dailyLimit # 0 /\ dailyLimit > 100 THEN "medium"
  ELSE "low"

\* the priority OrchestratorService.updateAccountVolume derives from a volume
priorityOfVolume(emailCount) ==
  IF emailCount > 1000 THEN "high" ELSE IF emailCount > 100 THEN "medium" ELSE "low"

\* what the orchestrator's methods leave alone in the scheduler
OrchRest ==
  /\ UNCHANGED <<now, taskQueue, workers, activeWorkers, retryTimers, tasksAdded,
                 lastAdded, skippedOverdue, failStreak, detached, executions>>
  /\ OrchFrame

\* OrchestratorService.addAccount(account)
OrchAddAccount(a, active, dailyLimit) ==
  /\ accounts' = [accounts EXCEPT ![a] = [present |-> TRUE, isActive |-> active]]
  /\ accountPriorities' = [accountPriorities EXCEPT ![a] = determineAccountPriority(dailyLimit)]
  /\ SetSched(IF active THEN addAccount(Sched, a, determineAccountPriority(dailyLimit))
                        ELSE Sched)
  /\ OrchRest

\* OrchestratorService.pauseAccount(accountId)
OrchPauseAccount(a) ==
  /\ accounts[a].present
  /\ SetSched(pauseAccount(Sched, a))
  /\ accounts' = [accounts EXCEPT ![a].isActive = FALSE]
  /\ UNCHANGED accountPriorities
  /\ OrchRest

\* OrchestratorService.resumeAccount(accountId)
OrchResumeAccount(a) ==
  /\ accounts[a].present
  /\ accounts' = [accounts EXCEPT ![a].isActive = TRUE]
  /\ SetSched(resumeAccount(Sched, a))
  /\ UNCHANGED accountPriorities
  /\ OrchRest

\* OrchestratorService.removeAccount(accountId)
OrchRemoveAccount(a) ==
  /\ accounts[a].present
  /\ SetSched(removeAccount(Sched, a))
  /\ accounts' = [accounts EXCEPT ![a] = [present |-> FALSE, isActive |-> FALSE]]
  /\ accountPriorities' = [accountPriorities EXCEPT ![a] = "none"]
  /\ OrchRest

\* OrchestratorService.updateAccountPriority(accountId, newPriority)
OrchUpdateAccountPriority(a, newPriority) ==
  /\ accounts[a].present
  /\ accountPriorities' = [accountPriorities EXCEPT ![a] = newPriority]
  /\ SetSched(updateAccountPriority(Sched, a, newPriority))
  /\ UNCHANGED accounts
  /\ OrchRest

\* OrchestratorService.updateAccountVolume(accountId, emailCount): the
\* scheduler takes the volume, then the priority derived from the volume is
\* applied when it differs from the stored one
OrchUpdateAccountVolume(a, emailCount) ==
  /\ accounts[a].present
  /\ LET x1 == updateAccountVolume(Sched, a, emailCount)
         newPriority == priorityOfVolume(emailCount) IN
     IF newPriority # accountPriorities[a]
       THEN /\ accountPriorities' = [accountPriorities EXCEPT ![a] = newPriority]
            /\ SetSched(updateAccountPriority(x1, a, newPriority))
       ELSE /\ UNCHANGED accountPriorities
            /\ SetSched(x1)
  /\ UNCHANGED accounts
  /\ OrchRest

OrchNext ==
  \/ \E a \in Scheduled, active \in BOOLEAN, dailyLimit \in DailyLimits :
       OrchAddAccount(a, active, dailyLimit)
  \/ \E a \in Scheduled : OrchPauseAccount(a)
  \/ \E a \in Scheduled : OrchResumeAccount(a)
  \/ \E a \in Scheduled : OrchRemoveAccount(a)
  \/ \E a \in Scheduled, p \in Priorities : OrchUpdateAccountPriority(a, p)
  \/ \E a \in Scheduled, n \in OrchVolumeReports : OrchUpdateAccountVolume(a, n)

(***************************************************************************)
(* Claims about PollingScheduler                                           *)
(***************************************************************************)
\* C9: the scheduler adds no task to the worker queue for a mailbox whose
\* schedule is paused (isActive = FALSE) or removed: whenever addTask is
\* called, the mailbox it is called for has an active schedule.
NoTaskForInactive ==
  [][tasksAdded' # tasksAdded =>
       \A a \in Scheduled :
         (a \notin DOMAIN schedules' \/ ~schedules'[a].isActive) =>
           /\ lastAdded' # a
           /\ Len(SelectSeq(taskQueue', LAMBDA t : t.accountId = a))
                <= Len(SelectSeq(taskQueue, LAMBDA t : t.accountId = a))]_vars

\* a tick has passed over a paused mailbox whose poll was overdue, after
\* tasks had been added for active mailboxes
PausedOverduePassedOver ==
  /\ skippedOverdue # {}
  /\ tasksAdded > 0
  /\ \E a \in skippedOverdue : a \in DOMAIN schedules /\ ~schedules[a].isActive

\* C11: once idleFailures has reached 3 and idleEnabled has become FALSE,
\* idleEnabled becomes TRUE again only by setIdleEnabled(id, true) (or by
\* adding the mailbox anew); no outcome report of a task re-enables it.
IdleStaysDisabled ==
  [][\A a \in IdleAccounts :
       (/\ a \in DOMAIN schedules
        /\ a \in DOMAIN schedules'
        /\ schedules[a].idleFailures >= maxIdleFailures
        /\ ~schedules[a].idleEnabled
        /\ schedules'[a].idleEnabled)
         => (SetIdleEnabled(a, TRUE) \/ \E p \in Priorities : AddAccount(a, p))]_vars

\* C12: in every schedule entry idleEnabled = TRUE implies supportsIdle = TRUE.
IdleEnabledOnlyIfSupported ==
  \A a \in DOMAIN schedules : schedules[a].idleEnabled => schedules[a].supportsIdle

\* C13: every task in the worker queue refers to a schedule entry that
\* exists and is active.
QueuedTasksHaveActiveSchedule ==
  \A i \in 1..Len(taskQueue) :
    /\ taskQueue[i].accountId \in DOMAIN schedules
    /\ schedules[taskQueue[i].accountId].isActive

Held ==
  {taskQueue[i] : i \in 1..Len(taskQueue)} \cup retryTimers
    \cup {workers[w].currentTask[1] : w \in {x \in DOMAIN workers : Busy(x)}}
    \cup {e.task : e \in detached}

Executing ==
  {workers[w].currentTask[1] : w \in {x \in DOMAIN workers : Busy(x)}}
    \cup {e.task : e \in detached}

\* C15: a task goes to a retry only from a failed execution with
\* retryCount < maxRetries, with retryCount one higher; no task the pool
\* holds has retryCount above maxRetries; no task is started more than
\* maxRetries + 1 times.
RetryBudgetRespected ==
  [][/\ \A t \in retryTimers' \ retryTimers :
          /\ t.retryCount >= 1
          /\ t.retryCount - 1 < t.maxRetries
          /\ [t EXCEPT !.retryCount = @ - 1] \in Executing
     /\ \A t \in Held' : t.retryCount <= t.maxRetries
     /\ \A id \in TaskIds : executions'[id] <= taskMaxRetries + 1]_vars

\* the only task added has been started maxRetries + 1 times and has failed
\* for good
RetryBudgetUsedUp ==
  /\ tasksAdded = 1
  /\ executions[1] = taskMaxRetries + 1
  /\ Held = {}
  /\ failStreak["a1"] = 1

QueueWithinSize == Len(taskQueue) <= taskQueueSize

\* C22: every task added is eventually started on a worker.
EveryTaskExecuted ==
  \A id \in 1..MaxPoolTasks : (tasksAdded >= id) ~> (executions[id] > 0)

\* C23: in a step that books a poll of a mailbox (lastPolled changes), no
\* poll task of that mailbox is still queued, executing or waiting for a
\* retry: the booking follows the completion of the task.
SuccessBookedAfterCompletion ==
  [][\A a \in Scheduled :
       (/\ a \in DOMAIN schedules /\ a \in DOMAIN schedules'
        /\ schedules'[a].lastPolled # schedules[a].lastPolled)
         => \A t \in Held' : ~(t.accountId = a /\ t.type = "poll")]_vars

IdleRetryEmitsIdle ==
  [][\A a \in Scheduled :
       (/\ a \in DOMAIN schedules
        /\ schedules[a].lastPolled = 0
        /\ schedules[a].idleEnabled /\ schedules[a].supportsIdle
        /\ schedules[a].idleFailures > 0
        /\ schedules[a].idleFailures < maxIdleFailures
        /\ TimerFire(a))
         => \A t \in Held' : t.id = tasksAdded' => t.type = "idle"]_vars

NoWorkAfterPoolShutdown ==
  [][poolShutdown # "running" => (tasksAdded' = tasksAdded /\ executions' = executions)]_vars

TasksOf(a) == {t \in Held : t.accountId = a}

\* C34: for each mailbox at most one task is queued or executing in the
\* worker fleet at any time (the tick and the per-mailbox timer never both
\* emit a task for the same due time, and no poll task is emitted while an
\* IDLE task of the mailbox is still queued or running).
OneTaskPerMailbox ==
  \A a \in Scheduled : Cardinality(TasksOf(a)) <= 1

\* C32: after a volume report of n new messages through
\* OrchestratorService.updateAccountVolume the schedule's volume tier is
\* high if n > 100, medium if n > 10 and low otherwise, and the schedule's
\* interval is the one mapped from that tier.
VolumeReportSetsTierAndInterval ==
  [][\A a \in Scheduled, n \in OrchVolumeReports :
       (OrchUpdateAccountVolume(a, n) /\ a \in DOMAIN schedules) =>
         LET tier == IF n > 100 THEN "high" ELSE IF n > 10 THEN "medium" ELSE "low" IN
         /\ schedules'[a].emailVolume = tier
         /\ schedules'[a].interval = adaptiveIntervals[tier]]_vars

\* C40: every account the orchestrator holds with isActive = true has an
\* active schedule entry, and every paused or removed account has none
\* that is active.
ActiveAccountsAreScheduled ==
  \A a \in Scheduled :
    (accounts[a].present /\ accounts[a].isActive)
      <=> (a \in DOMAIN schedules /\ schedules[a].isActive)

(***************************************************************************)
(* memory-storage: the accounts map and the activeAccountIds set           *)
(***************************************************************************)
StorageInit ==
  /\ memoryAccounts = [a \in StorageAccounts |-> <<>>]
  /\ activeAccountIds = <<>>

StorageQuiet == StorageInit

\* activeAccountIds.add(id): a Set keeps an id it has in its place
Added(ids, a) == IF a \in Range(ids) THEN ids ELSE Append(ids, a)

\* setEmailAccount(account) on x = [A |-> accounts, I |-> activeAccountIds]
setEmailAccount(x, a, isActive) ==
  [A |-> [x.A EXCEPT ![a] = <<[isActive |-> isActive]>>],
   I |-> IF isActive THEN Added(x.I, a) ELSE x.I]

\* removeEmailAccount(accountId)
removeEmailAccount(x, a) ==
  [A |-> [x.A EXCEPT ![a] = <<>>],
   I |-> Removed(x.I, a)]

\* updateAccount(accountId, updates): updates is <<>> when it has no
\* isActive, else <<isActive>>
updateAccount(x, a, updates) ==
  IF x.A[a] = <<>> THEN x
  ELSE LET updatedAccount == IF updates = <<>> THEN x.A[a][1] ELSE [isActive |-> updates[1]]
       IN [A |-> [x.A EXCEPT ![a] = <<updatedAccount>>],
           I |-> IF updatedAccount.isActive THEN Added(x.I, a) ELSE Removed(x.I, a)]

\* getActiveAccountIds(): Array.from(activeAccountIds)
getActiveAccountIds == activeAccountIds

\* the loop of the account refresh timer over newAccounts
RECURSIVE refreshed(_, _)
refreshed(x, newAccounts) ==
  IF newAccounts = <<>> THEN x
  ELSE refreshed(setEmailAccount(x, newAccounts[1].id, newAccounts[1].isActive),
                 Tail(newAccounts))

Storage == [A |-> memoryAccounts, I |-> activeAccountIds]

SetStorage(x) ==
  /\ memoryAccounts' = x.A
  /\ activeAccountIds' = x.I

\* what getEmailAccounts can return: up to MaxFetched rows of distinct ids
Fetched ==
  {q \in UNION {[1..n -> [id : StorageAccounts, isActive : BOOLEAN]] : n \in 0..MaxFetched} :
     \A i, j \in 1..Len(q) : i # j => q[i].id # q[j].id}

SetEmailAccount(a, isActive) ==
  /\ SetStorage(setEmailAccount(Storage, a, isActive))
  /\ StorageFrame

RemoveEmailAccount(a) ==
  /\ SetStorage(removeEmailAccount(Storage, a))
  /\ StorageFrame

UpdateAccount(a, updates) ==
  /\ SetStorage(updateAccount(Storage, a, updates))
  /\ StorageFrame

\* the account refresh timer fires: every row getEmailAccounts returned is
\* stored with setEmailAccount
AccountRefresh(newAccounts) ==
  /\ SetStorage(refreshed(Storage, newAccounts))
  /\ StorageFrame

StorageNext ==
  \/ \E a \in StorageAccounts, isActive \in BOOLEAN : SetEmailAccount(a, isActive)
  \/ \E a \in StorageAccounts : RemoveEmailAccount(a)
  \/ \E a \in StorageAccounts, updates \in {<<>>, <<TRUE>>, <<FALSE>>} : UpdateAccount(a, updates)
  \/ \E newAccounts \in Fetched : AccountRefresh(newAccounts)

\* C39: getActiveAccountIds() returns exactly the ids of the stored
\* accounts whose isActive is true.
ActiveIdsAreActiveAccounts ==
  Range(getActiveAccountIds)
    = {a \in StorageAccounts : memoryAccounts[a] # <<>> /\ memoryAccounts[a][1].isActive}

(***************************************************************************)
(* SupabaseDatabaseService: upsertImapConnectionStatus                     *)
(***************************************************************************)
PromiseIds == 1..MaxCalls

CallIds == 1..MaxCalls

UpsertInit ==
  /\ ongoingUpserts = [a \in UpsertAccounts |-> 0]
  /\ upserts = [p \in PromiseIds |-> [acct |-> "none", state |-> "none", requests |-> 0, data |-> 0]]
  /\ calls = [c \in CallIds |-> [pc |-> "idle", acct |-> "none", promise |-> 0]]
  /\ statusRow = [a \in UpsertAccounts |-> 0]
  /\ latestCall = [a \in UpsertAccounts |-> 0]

\* a lookup that never finds a promise
noExistingPromise(a) == 0

\* this.ongoingUpserts.get(emailAccountId)
existingPromise(a) == ongoingUpserts[a]

Settled(p) == upserts[p].state \in {"fulfilled", "rejected"}

\* a request of performUpsert is answered with a row: the row of the
\* mailbox holds the connectionData performUpsert was called with
Written(p, reply) ==
  IF reply = "row" THEN [statusRow EXCEPT ![upserts[p].acct] = upserts[p].data] ELSE statusRow

\* upsertImapConnectionStatus up to its await: an ongoing upsert of the
\* mailbox is returned as it is; else performUpsert is started with the
\* connectionData of this call (it runs up to its first request to the
\* store) and its promise is put in the map
UpsertImapConnectionStatus(c, a) ==
  /\ calls[c].pc = "idle"
  /\ latestCall' = [latestCall EXCEPT ![a] = c]
  /\ UNCHANGED statusRow
  /\ IF existingPromise(a) # 0
       THEN /\ calls' = [calls EXCEPT ![c] = [pc |-> "shared", acct |-> a,
                                              promise |-> existingPromise(a)]]
            /\ UNCHANGED <<ongoingUpserts, upserts>>
       ELSE LET free == {p \in PromiseIds : upserts[p].state = "none"}
                p == CHOOSE x \in free : \A y \in free : x <= y
            IN /\ upserts' = [upserts EXCEPT ![p] = [acct |-> a, state |-> "update", requests |-> 1, data |-> c]]
               /\ ongoingUpserts' = [ongoingUpserts EXCEPT ![a] = p]
               /\ calls' = [calls EXCEPT ![c] = [pc |-> "awaiting", acct |-> a, promise |-> p]]
  /\ UpsertFrame

\* performUpsert after the first update: a row ends it, PGRST116 (no row)
\* leads to the insert, any other error is thrown
UpdateReplied(p, reply) ==
  /\ upserts[p].state = "update"
  /\ upserts' = [upserts EXCEPT ![p].state =
                                     CASE reply = "row" -> "fulfilled"
                                       [] reply = "PGRST116" -> "insert"
                                       [] OTHER -> "rejected",
                                   ![p].requests = IF reply = "PGRST116" THEN 2 ELSE @]
  /\ statusRow' = Written(p, reply)
  /\ UNCHANGED <<ongoingUpserts, calls, latestCall>>
  /\ UpsertFrame

\* performUpsert after the insert: a row ends it, 23505 (duplicate key)
\* leads to the second update, any other error is thrown
InsertReplied(p, reply) ==
  /\ upserts[p].state = "insert"
  /\ upserts' = [upserts EXCEPT ![p].state =
                                     CASE reply = "row" -> "fulfilled"
                                       [] reply = "23505" -> "retry"
                                       [] OTHER -> "rejected",
                                   ![p].requests = IF reply = "23505" THEN 3 ELSE @]
  /\ statusRow' = Written(p, reply)
  /\ UNCHANGED <<ongoingUpserts, calls, latestCall>>
  /\ UpsertFrame

\* performUpsert after the second update
RetryReplied(p, reply) ==
  /\ upserts[p].state = "retry"
  /\ upserts' = [upserts EXCEPT ![p].state = IF reply = "row" THEN "fulfilled" ELSE "rejected"]
  /\ statusRow' = Written(p, reply)
  /\ UNCHANGED <<ongoingUpserts, calls, latestCall>>
  /\ UpsertFrame

\* the continuation of await upsertPromise: finally, ongoingUpserts.delete
UpsertSettled(c) ==
  /\ calls[c].pc = "awaiting"
  /\ Settled(calls[c].promise)
  /\ ongoingUpserts' = [ongoingUpserts EXCEPT ![calls[c].acct] = 0]
  /\ calls' = [calls EXCEPT ![c].pc = "done"]
  /\ UNCHANGED <<upserts, statusRow, latestCall>>
  /\ UpsertFrame

UpsertNext ==
  \/ \E c \in CallIds, a \in UpsertAccounts : UpsertImapConnectionStatus(c, a)
  \/ \E p \in PromiseIds, reply \in {"row", "PGRST116", "error"} : UpdateReplied(p, reply)
  \/ \E p \in PromiseIds, reply \in {"row", "23505", "error"} : InsertReplied(p, reply)
  \/ \E p \in PromiseIds, reply \in {"row", "error"} : RetryReplied(p, reply)
  \/ \E c \in CallIds : UpsertSettled(c)

\* the performUpsert promises of a mailbox that have not settled
InFlight(a) == {p \in PromiseIds : upserts[p].acct = a /\ ~Settled(p)}

\* C19: for each mailbox at most one performUpsert is in flight; the marker
\* of a mailbox is the promise of a call still waiting for it; and once that
\* call has seen the promise settle, fulfilled or rejected, the marker is
\* no longer that promise.
OneUpsertInFlight ==
  /\ \A a \in UpsertAccounts : Cardinality(InFlight(a)) <= 1
  /\ \A a \in UpsertAccounts :
       ongoingUpserts[a] # 0
         => \E c \in CallIds : /\ calls[c].pc = "awaiting"
                                /\ calls[c].acct = a
                                /\ calls[c].promise = ongoingUpserts[a]
  /\ \A c \in CallIds :
       calls[c].pc = "done" => ongoingUpserts[calls[c].acct] # calls[c].promise

\* a second call shared the upsert of the first, the upsert failed, and the
\* marker is gone
SharedUpsertFailedAndCleared ==
  \E c, d \in CallIds :
    /\ calls[c].pc = "done"
    /\ upserts[calls[c].promise].state = "rejected"
    /\ calls[d].pc = "shared"
    /\ calls[d].promise = calls[c].promise
    /\ ongoingUpserts[calls[c].acct] = 0

\* the calls for a mailbox that have not settled: a call settles when the
\* promise it returned or awaited settles
Unsettled(a) == {c \in CallIds : calls[c].acct = a /\ ~Settled(calls[c].promise)}

\* C36: when the upsertImapConnectionStatus calls for a mailbox have all
\* settled and the call made last was fulfilled, the row of the mailbox
\* holds the connectionData of that call.
LatestUpsertStored ==
  \A a \in UpsertAccounts :
    (/\ latestCall[a] # 0
     /\ Unsettled(a) = {}
     /\ upserts[calls[latestCall[a]].promise].state = "fulfilled")
      => statusRow[a] = latestCall[a]

(***************************************************************************)
(* Claims about IMAPService                                                *)
(***************************************************************************)
\* a task holds the session of its mailbox from the return of getConnection
\* to its releaseConnection
Holds(t) == pc[t] \in {"have", "connecting", "work"}

\* C1: under any interleaving of getConnection calls, sweeps and removals,
\* at most one session of a mailbox is live (constructed and not closed) at
\* any instant.
AtMostOneLiveSession ==
  \A m \in Mailboxes : Cardinality(LiveSessions(m)) <= 1

\* C2: between getConnection and releaseConnection of a task no other task
\* obtains the session of the same mailbox: at most one task holds the
\* session of a mailbox at any instant.
AtMostOneHolder ==
  \A t1, t2 \in Tasks : (t1 # t2 /\ Holds(t1) /\ Holds(t2)) => box[t1] # box[t2]

\* the mailbox of the ImapWorker when another component is looked at
UpsertQuiet == UpsertInit

AppQuiet == AppInit

IdleTaskQuiet == IdleTaskInit

StatusQuiet ==
  /\ connectionStatuses = [a \in StatusAccounts |-> <<>>]
  /\ stored = [a \in StatusAccounts |-> <<>>]

PollQuiet == PollInit /\ exists = 0 /\ kind = [i \in SeqNos |-> "ok"]

SchedQuiet == SchedInit

InitImap == ImapInit /\ CmInit /\ PollQuiet /\ SchedQuiet /\ UpsertQuiet /\ AppQuiet /\ StatusQuiet /\ IdleTaskQuiet /\ PoolShutdownQuiet /\ MonitorQuiet /\ HealthQuiet /\ OrchQuiet /\ StorageQuiet

InitPoll == ImapInit /\ CmInit /\ PollInit /\ SchedQuiet /\ UpsertQuiet /\ AppQuiet /\ StatusQuiet /\ IdleTaskQuiet /\ PoolShutdownQuiet /\ MonitorQuiet /\ HealthQuiet /\ OrchQuiet /\ StorageQuiet

InitSched == ImapInit /\ CmInit /\ PollQuiet /\ SchedInit /\ UpsertQuiet /\ AppQuiet /\ StatusQuiet /\ IdleTaskQuiet /\ PoolShutdownQuiet /\ MonitorQuiet /\ HealthQuiet /\ OrchQuiet /\ StorageQuiet

InitFleet == ImapInit /\ CmInit /\ PollQuiet /\ FleetInit /\ UpsertQuiet /\ AppQuiet /\ StatusQuiet /\ IdleTaskQuiet /\ PoolShutdownQuiet /\ MonitorQuiet /\ HealthQuiet /\ OrchQuiet /\ StorageQuiet

SpecImap == InitImap /\ [][ImapNext]_vars

SpecCm == InitImap /\ [][CmNext]_vars

SpecCmQueue == InitImap /\ [][CmQueueNext]_vars

SpecCmQueueFair == InitImap /\ [][CmQueueNext]_vars /\ WF_vars(CmQueueNext)

SpecPoll == InitPoll /\ [][PollNext]_vars

SpecSched == InitSched /\ [][SchedNext]_vars

SpecFleet == InitFleet /\ [][FleetNext]_vars

SpecIdle == InitSched /\ [][IdleNext]_vars

SpecPool == InitFleet /\ [][PoolNext]_vars

SpecPoolShutdown == InitFleet /\ [][PoolShutdownNext]_vars

SpecUpsert == InitImap /\ [][UpsertNext]_vars

SpecBuiltPool == InitSched /\ [][BuiltPoolNext]_vars /\ WF_vars(BuiltPoolNext)

SpecQuarantine == InitSched /\ [][QuarantineNext]_vars

SpecIdleRetry == InitSched /\ [][IdleRetryNext]_vars

InitIdleTask == ImapInit /\ CmInit /\ PollQuiet /\ SchedQuiet /\ UpsertQuiet /\ AppQuiet /\ StatusQuiet /\ IdleTaskInit /\ PoolShutdownQuiet /\ MonitorQuiet /\ HealthQuiet /\ OrchQuiet /\ StorageQuiet

SpecIdleTask == InitIdleTask /\ [][IdleTaskNext]_vars /\ WF_vars(IdleTaskNext)

InitMonitor == ImapInit /\ CmInit /\ PollQuiet /\ SchedQuiet /\ UpsertQuiet /\ AppQuiet /\ StatusQuiet /\ IdleTaskQuiet /\ PoolShutdownQuiet /\ MonitorInit /\ HealthQuiet /\ OrchQuiet /\ StorageQuiet

SpecMonitor == InitMonitor /\ [][MonitorNext]_vars

InitHealth == ImapInit /\ CmInit /\ PollQuiet /\ SchedQuiet /\ UpsertQuiet /\ AppQuiet /\ StatusQuiet /\ IdleTaskQuiet /\ PoolShutdownQuiet /\ MonitorQuiet /\ HealthInit /\ OrchQuiet /\ StorageQuiet

SpecHealth == InitHealth /\ [][HealthNext]_vars

InitOrch == ImapInit /\ CmInit /\ PollQuiet /\ SchedInit /\ UpsertQuiet /\ AppQuiet /\ StatusQuiet /\ IdleTaskQuiet /\ PoolShutdownQuiet /\ MonitorQuiet /\ HealthQuiet /\ OrchInit /\ StorageQuiet

SpecOrch == InitOrch /\ [][OrchNext]_vars

InitStorage == ImapInit /\ CmInit /\ PollQuiet /\ SchedQuiet /\ UpsertQuiet /\ AppQuiet /\ StatusQuiet /\ IdleTaskQuiet /\ PoolShutdownQuiet /\ MonitorQuiet /\ HealthQuiet /\ OrchQuiet /\ StorageInit

SpecStorage == InitStorage /\ [][StorageNext]_vars

SpecShutdown == InitImap /\ [][ShutdownNext]_vars

InitStatus == ImapInit /\ CmInit /\ PollQuiet /\ SchedQuiet /\ UpsertQuiet /\ AppQuiet /\ StatusInit /\ IdleTaskQuiet /\ PoolShutdownQuiet /\ MonitorQuiet /\ HealthQuiet /\ OrchQuiet /\ StorageQuiet

SpecStatus == InitStatus /\ [][StatusNext]_vars

====
